---- MODULE Spec2Model ----
(***************************************************************************)
(* The forecast-serving pipeline of ecosphere-ml-service:                  *)
(*   weather_service.py  WeatherService  (call log, rate limit, weather    *)
(*                                        cache, provider call)            *)
(*   node_service.py     SolarForecastService (result cache, 48 hour       *)
(*                                        prediction loop, summary)        *)
(*                                                                         *)
(* Time is an integer number of ticks since local midnight of day 0; a     *)
(* second holds TicksPerSecond ticks, so a tick that is not a multiple of  *)
(* TicksPerSecond is an instant with a non-zero microsecond part.          *)
(* Python's None is the empty set and a present value v is {v}.            *)
(* Kilowatts are integers in hundredths of a kW (the code rounds to 2      *)
(* decimals).                                                              *)
(***************************************************************************)
EXTENDS Integers, Sequences, FiniteSets, TLC

VARIABLES
    now,            \* wall clock (datetime.now(), time.time()), in ticks
    model_kind,     \* the pickled regressor loaded by __init__ (behaviour class)
    feature_names,  \* model_data['feature_names'] loaded by __init__
    call_log,       \* WeatherService.call_log, in the memory of the running process
    call_log_file,  \* weather_cache/api_calls.json on disk
    weather_cache,  \* weather_cache/<md5>.json : key -> [mtime, data]
    result_cache,   \* result_cache/<md5>.json  : key -> [mtime, result]
    last,           \* observation of the operation that ran last
    prev,           \* observation of the operation before it
    steps,          \* number of steps taken (bounds the exploration)
    procs,          \* concurrent invocations: position and call log in memory of each
    attempts        \* provider calls made by the concurrent invocations: <<process, instant>>

vars == <<now, model_kind, feature_names, call_log, call_log_file, weather_cache, result_cache,
          last, prev, steps, procs, attempts>>

---------------------------------------------------------------------------
(* Bounds of the exploration *)

TicksPerSecond == 2
MaxSteps == 3
MaxDeclared == 2

---------------------------------------------------------------------------
(* Program constants *)

max_calls_per_day == 950
HistoryCap == 1000
WeatherMaxAgeMinutes == 10
ResultMaxAgeMinutes == 10
ForecastHours == 48
DaylightFirstHour == 6
DaylightLastHour == 21
self_lat == 510447        \* 51.0447 in 1e-4 degrees
self_lon == -1140719      \* -114.0719 in 1e-4 degrees

---------------------------------------------------------------------------
(* Calendar arithmetic: datetime, timedelta, strftime("%Y-%m-%d"), strptime *)

Second == TicksPerSecond
Minute == 60 * Second
Hour == 60 * Minute
Day == 24 * Hour

DayOf(t) == t \div Day                      \* .date() / strftime('%Y-%m-%d')
HourOf(t) == (t % Day) \div Hour            \* .hour
MinuteOf(t) == (t % Hour) \div Minute       \* .minute
SecondOf(t) == (t % Minute) \div Second     \* .second
MicroOf(t) == t % Second                    \* .microsecond (non-zero iff > 0)
FloorHour(t) == t - (t % Hour)              \* .replace(minute=0, second=0, microsecond=0)

None == {}
Some(v) == {v}
Get(o) == CHOOSE v \in o : TRUE

\* A date string argument: a well-formed "YYYY-MM-DD" naming day d, or a string
\* strptime rejects.
DateStr(d) == [ok |-> TRUE, day |-> d]
BadDateStr == [ok |-> FALSE, day |-> 0]

Max(a, b) == IF a >= b THEN a ELSE b
Min(a, b) == IF a <= b THEN a ELSE b

---------------------------------------------------------------------------
(* WeatherService: the call log *)

\* history is the list call_log['history']: `old` leading records that are not
\* told apart, followed by the records `recent`, oldest first.
HistoryLen(h) == h.old + Len(h.recent)

\* a trim that keeps the first 1000 records, history[:1000]
HistoryTrim_KeepOldest(h) ==
    LET excess == HistoryLen(h) - HistoryCap
    IN  IF excess <= 0 THEN h
        ELSE [old |-> h.old,
              recent |-> SubSeq(h.recent, 1, Len(h.recent) - excess)]

\* history[-1000:]
HistoryTrim(h) ==
    LET excess == HistoryLen(h) - HistoryCap
    IN  IF excess <= 0 THEN h
        ELSE IF excess <= h.old THEN [h EXCEPT !.old = h.old - excess]
        ELSE [old |-> 0,
              recent |-> SubSeq(h.recent, excess - h.old + 1, Len(h.recent))]

\* a rate limit that lets the call through when the count has reached the quota
_check_rate_limit_Inclusive(cl, t) ==
    LET today == DayOf(t)
        cl1 == IF cl.today # today
               THEN [cl EXCEPT !.today = today, !.calls_today = 0, !.last_reset = t]
               ELSE cl
    IN  [call_log |-> cl1, allowed |-> cl1.calls_today <= max_calls_per_day]

\* a rate limit that compares the count before it looks at the date
_check_rate_limit_CompareFirst(cl, t) ==
    LET today == DayOf(t)
        cl1 == IF cl.today # today
               THEN [cl EXCEPT !.today = today, !.calls_today = 0, !.last_reset = t]
               ELSE cl
    IN  [call_log |-> cl1, allowed |-> cl.calls_today < max_calls_per_day]

\* a rate limit that never refuses
_check_rate_limit_Unlimited(cl, t) ==
    LET today == DayOf(t)
        cl1 == IF cl.today # today
               THEN [cl EXCEPT !.today = today, !.calls_today = 0, !.last_reset = t]
               ELSE cl
    IN  [call_log |-> cl1, allowed |-> TRUE]

\* a rate limit that counts the calls it refuses
_check_rate_limit_CountsRefusals(cl, t) ==
    LET today == DayOf(t)
        cl1 == IF cl.today # today
               THEN [cl EXCEPT !.today = today, !.calls_today = 0, !.last_reset = t]
               ELSE cl
    IN  IF cl1.calls_today < max_calls_per_day
        THEN [call_log |-> cl1, allowed |-> TRUE]
        ELSE [call_log |-> [cl1 EXCEPT !.calls_today = cl1.calls_today + 1],
              allowed |-> FALSE]

\* _check_rate_limit: the day rollover, then calls_today < max_calls_per_day.
\* The rollover is made in memory only (no _save_call_log here).
_check_rate_limit(cl, t) ==
    LET today == DayOf(t)
        cl1 == IF cl.today # today
               THEN [cl EXCEPT !.today = today, !.calls_today = 0, !.last_reset = t]
               ELSE cl
    IN  [call_log |-> cl1, allowed |-> cl1.calls_today < max_calls_per_day]

\* _log_api_call up to (not including) _save_call_log
LogAppend(cl, success, t) ==
    [cl EXCEPT !.calls_today = cl.calls_today + 1,
               !.history = HistoryTrim([old |-> cl.history.old,
                                        recent |-> Append(cl.history.recent,
                                                          [timestamp |-> t, success |-> success])])]

\* a _log_api_call that reads the file of today again before it counts
_log_api_call_Reload(cl, clf, success, t, fault) ==
    LET cl0 == IF clf # None /\ Get(clf).today = cl.today THEN Get(clf) ELSE cl
        cl1 == LogAppend(cl0, success, t)
    IN  IF fault = "log_write"
        THEN [call_log |-> cl1, call_log_file |-> clf, raised |-> TRUE]
        ELSE [call_log |-> cl1, call_log_file |-> Some(cl1), raised |-> FALSE]

\* _log_api_call: returns the log in memory, the file, and whether the save raised
_log_api_call(cl, clf, success, t, fault) ==
    LET cl1 == LogAppend(cl, success, t)
    IN  IF fault = "log_write"
        THEN [call_log |-> cl1, call_log_file |-> clf, raised |-> TRUE]
        ELSE [call_log |-> cl1, call_log_file |-> Some(cl1), raised |-> FALSE]

\* _init_call_log, run by WeatherService.__init__ when the module is imported
_init_call_log(clf, t) ==
    IF clf = None
    THEN LET cl == [today |-> DayOf(t), calls_today |-> 0, last_reset |-> t,
                    history |-> [old |-> 0, recent |-> <<>>]]
         IN  [call_log |-> cl, call_log_file |-> Some(cl)]
    ELSE LET cl == Get(clf)
         IN  IF cl.today # DayOf(t)
             THEN LET cl1 == [cl EXCEPT !.today = DayOf(t), !.calls_today = 0,
                                        !.last_reset = t]
                  IN  [call_log |-> cl1, call_log_file |-> Some(cl1)]
             ELSE [call_log |-> cl, call_log_file |-> clf]

\* get_api_stats
get_api_stats(cl) ==
    [calls_today |-> cl.calls_today,
     max_calls_per_day |-> max_calls_per_day,
     remaining_calls |-> max_calls_per_day - cl.calls_today,
     last_reset |-> cl.last_reset,
     today |-> cl.today]

---------------------------------------------------------------------------
(* WeatherService: the weather cache *)

\* _get_cache_key: md5 of f"{lat}_{lon}_{start_date}_{end_date}"; the digest is
\* modelled by the tuple of the formatted fields it is computed from.
_get_cache_key(lat, lon, start_date, end_date) == <<lat, lon, start_date, end_date>>

\* a validity test that never lets an entry expire
_is_cache_valid_NoExpiry(wc, key, t) ==
    key \in DOMAIN wc

\* a validity test that takes an entry of age exactly max_age for expired
_is_cache_valid_Strict(wc, key, t) ==
    /\ key \in DOMAIN wc
    /\ t - wc[key].mtime < WeatherMaxAgeMinutes * Minute

\* _is_cache_valid: the file exists and time.time() - st_mtime <= max_age_minutes * 60
_is_cache_valid(wc, key, t) ==
    /\ key \in DOMAIN wc
    /\ t - wc[key].mtime <= WeatherMaxAgeMinutes * Minute

\* open(path, 'w') + json.dump: the entry is created or replaced, mtime is now
CachePut(cache, key, entry) ==
    [k \in DOMAIN cache \cup {key} |-> IF k = key THEN entry ELSE cache[k]]

\* _find_closest_hourly: the entry of hourly_data (a sequence of dt) closest to
\* target_time, the first one of the list on a tie (the scan replaces `closest`
\* only on a strictly smaller difference), or None when it is more than 3600 s
\* away
AbsDiff(a, b) == IF a < b THEN b - a ELSE a - b

_find_closest_hourly(hourly_data, target_time) ==
    LET near == {i \in DOMAIN hourly_data : AbsDiff(hourly_data[i], target_time) <= Hour}
    IN  IF near = {} THEN None
        ELSE Some(hourly_data[
                 CHOOSE i \in near :
                     \A j \in near :
                         \/ AbsDiff(hourly_data[i], target_time)
                              < AbsDiff(hourly_data[j], target_time)
                         \/ /\ AbsDiff(hourly_data[i], target_time)
                                 = AbsDiff(hourly_data[j], target_time)
                            /\ i <= j])

\* The `forecasts` dict built at weather_service.py:190-224: for today and
\* tomorrow, one entry per hour 0..23 that has a provider observation within an
\* hour. forecasts[<<date, hour>>] is the dt of the observation the entry was
\* made from.
ForecastTargets(t) ==
    {x \in {DayOf(t), DayOf(t) + 1} \X (0..23) :
        ~((x[1] * Day + x[2] * Hour) - t > ForecastHours * Hour)}

BuildEntries(closest) ==
    [x \in {y \in DOMAIN closest : closest[y] # None} |-> Get(closest[x])]

BuildForecasts(hourly_data, t) ==
    [fetched_at |-> t,
     dates |-> {DayOf(t), DayOf(t) + 1},
     entries |-> BuildEntries([x \in ForecastTargets(t) |->
                     _find_closest_hourly(hourly_data, x[1] * Day + x[2] * Hour)])]

\* The provider's answer: the `hourly` array of One Call 3.0 holds 48 hourly
\* observations starting with the current hour.
ProviderHourly(provider, t) ==
    IF provider = "ok" THEN [i \in 1..ForecastHours |-> FloorHour(t) + (i - 1) * Hour]
    ELSE <<>>

\* What requests.get / raise_for_status / response.json() can do:
\*   ok            200 with a full hourly array
\*   ok_empty      200 with "hourly": []
\*   no_hourly     200 with JSON that has no "hourly" key
\*   network_error ConnectionError / Timeout            (RequestException)
\*   http_status   non-2xx, raised by raise_for_status  (RequestException)
\*   json_invalid  body is not JSON: requests.exceptions.JSONDecodeError
\*                 (a RequestException since requests 2.27)
\*   json_value_error  body is not JSON, with an older requests: response.json()
\*                 raises a plain ValueError, which is not a RequestException
ProviderOutcomes == {"ok", "ok_empty", "no_hourly", "network_error", "http_status",
                     "json_invalid", "json_value_error"}
RequestExceptions == {"network_error", "http_status", "json_invalid"}

\* What a result file holds when the write that made it did not finish: json.load
\* raises on it
Unparseable == [unparseable |-> TRUE]

\* a write of the result file that fails after open(cache_path, 'w') has
\* emptied the file (json.dump or the closing flush raises), as opposed to
\* "result_write", where open itself fails and the file stays as it was
PartialWrite == "result_write_partial"

\* File-system faults a call can meet (at most one per call)
Faults == {"none", "result_read", "result_write", "weather_read", "weather_write",
           "log_write"}

WsRet(ret, raised, cl, clf, wc, http, path) ==
    [ret |-> ret, raised |-> raised, call_log |-> cl, call_log_file |-> clf,
     weather_cache |-> wc, http |-> http, path |-> path]

\* an except branch that serves what the weather cache holds for the key
RequestExceptionHandler_ServeStale(cl, clf, wc, key, t, fault) ==
    LET lg == _log_api_call(cl, clf, FALSE, t, fault)
    IN  WsRet(IF key \in DOMAIN wc THEN Some(wc[key].data) ELSE None,
              lg.raised, lg.call_log, lg.call_log_file, wc, 1, "api_failed")

\* an except branch that returns None without logging the call
RequestExceptionHandler_Unlogged(cl, clf, wc, key, t, fault) ==
    WsRet(None, FALSE, cl, clf, wc, 1, "api_failed")

\* except requests.exceptions.RequestException (weather_service.py:237-240): the
\* call is logged as failed and None is returned; the cache is not looked at
RequestExceptionHandler(cl, clf, wc, key, t, fault) ==
    LET lg == _log_api_call(cl, clf, FALSE, t, fault)
    IN  WsRet(None, lg.raised, lg.call_log, lg.call_log_file, wc, 1, "api_failed")

\* get_weather_forecast from the clamp of the end date to the rate-limit check
\* (weather_service.py:144-168): either the call returns here (`done`), from
\* the fresh entry, from the stale one or with None, or it goes on to the
\* provider with the cache key and the call log the check left in memory
CheckCacheAndRateLimit(cl, clf, wc, lat, lon, start_date, end_date, force_fresh, t, fault) ==
    LET max_end_date == t + ForecastHours * Hour
        end2 == IF end_date.day * Day > max_end_date
                THEN DateStr(DayOf(max_end_date)) ELSE end_date
        key == _get_cache_key(lat, lon, start_date, end2)
        rl == _check_rate_limit(cl, t)
    IN  IF ~force_fresh /\ _is_cache_valid(wc, key, t)
        THEN \* get_cached_weather: json.load of a fresh file
             IF fault = "weather_read"
             THEN [done |-> TRUE, key |-> key,
                   ret |-> WsRet(None, FALSE, cl, clf, wc, 0, "error")]
             ELSE [done |-> TRUE, key |-> key,
                   ret |-> WsRet(Some(wc[key].data), FALSE, cl, clf, wc, 0, "fresh")]
        ELSE IF ~rl.allowed
        THEN \* rate limit reached: any cached data, even if not fresh
             IF key \in DOMAIN wc
             THEN IF fault = "weather_read"
                  THEN [done |-> TRUE, key |-> key,
                        ret |-> WsRet(None, FALSE, rl.call_log, clf, wc, 0, "error")]
                  ELSE [done |-> TRUE, key |-> key,
                        ret |-> WsRet(Some(wc[key].data), FALSE, rl.call_log, clf, wc, 0,
                                      "stale")]
             ELSE [done |-> TRUE, key |-> key,
                   ret |-> WsRet(None, FALSE, rl.call_log, clf, wc, 0, "exhausted")]
        ELSE [done |-> FALSE, key |-> key,
              ret |-> WsRet(None, FALSE, rl.call_log, clf, wc, 0, "requesting")]

\* get_weather_forecast from requests.get to the end (weather_service.py:
\* 170-245). current_time is the instant the call took at line 140, t the
\* instant the response (or the exception) arrives.
CallProvider(cl, clf, wc, key, current_time, t, env) ==
    IF env.provider \in RequestExceptions
    THEN RequestExceptionHandler(cl, clf, wc, key, t, env.fault)
    ELSE IF env.provider = "json_value_error"
    THEN \* response.json() raises ValueError -> except Exception: nothing is logged
         WsRet(None, FALSE, cl, clf, wc, 1, "error")
    ELSE \* the response arrived: logged as a success before it is processed
         LET lg == _log_api_call(cl, clf, TRUE, t, env.fault)
             forecasts == [BuildForecasts(ProviderHourly(env.provider, t), current_time)
                             EXCEPT !.fetched_at = t]
         IN  IF lg.raised
             THEN WsRet(None, FALSE, lg.call_log, lg.call_log_file, wc, 1, "error")
             ELSE IF env.provider = "no_hourly"
             THEN \* weather_data['hourly'] raises KeyError -> except Exception
                  WsRet(None, FALSE, lg.call_log, lg.call_log_file, wc, 1, "error")
             ELSE IF env.fault = "weather_write"
             THEN WsRet(None, FALSE, lg.call_log, lg.call_log_file, wc, 1, "error")
             ELSE WsRet(Some(forecasts), FALSE, lg.call_log, lg.call_log_file,
                        CachePut(wc, key, [mtime |-> t, data |-> forecasts]),
                        1, "api_ok")

\* get_weather_forecast, after the two strptime calls succeeded
GetWeatherForecastBody(cl, clf, wc, lat, lon, start_date, end_date, force_fresh, t, env) ==
    LET c == CheckCacheAndRateLimit(cl, clf, wc, lat, lon, start_date, end_date,
                                    force_fresh, t, env.fault)
    IN  IF c.done THEN c.ret
        ELSE CallProvider(c.ret.call_log, clf, wc, c.key, t, t, env)

\* get_weather_forecast
get_weather_forecast(cl, clf, wc, lat, lon, start_date, end_date, force_fresh, t, env) ==
    IF ~end_date.ok \/ ~start_date.ok
    THEN \* strptime raises ValueError -> except Exception: return None
         WsRet(None, FALSE, cl, clf, wc, 0, "error")
    ELSE GetWeatherForecastBody(cl, clf, wc, lat, lon, start_date, end_date,
                                force_fresh, t, env)

---------------------------------------------------------------------------
(* SolarForecastService: the model runtime *)

\* The pickled regressor and scaler are opaque; model_kind names how they
\* behave. The regressor answers in log1p space.
ModelKinds == {"plain", "raises_at_noon", "raises"}

\* scaler.transform / model.predict raise
ModelRaises(kind, dt) ==
    \/ kind = "raises"
    \/ kind = "raises_at_noon" /\ HourOf(dt) = 12

\* model.predict(features_scaled)[0]: below zero at dawn and dusk, highest
\* around noon, higher with a weather observation than with the defaults
ModelRaw(kind, dt, weather_data) ==
    IF HourOf(dt) < 7 \/ HourOf(dt) > 20 THEN -1
    ELSE IF weather_data # None
         THEN (IF HourOf(dt) \in 10..15 THEN 2 ELSE 1)
         ELSE (IF HourOf(dt) \in 10..15 THEN 1 ELSE 0)

\* np.expm1, in hundredths: expm1(-1) = -0.63, expm1(1) = 1.72, expm1(2) = 6.39
Expm1Centi(x) ==
    CASE x = -1 -> -63
      [] x = 0 -> 0
      [] x = 1 -> 172
      [] x = 2 -> 639

\* a predict_for_datetime that returns expm1 of the regressor's output as it is
predict_for_datetime_NoFloor(kind, dt, weather_data) ==
    IF ModelRaises(kind, dt)
    THEN [raised |-> TRUE, kw |-> 0]
    ELSE [raised |-> FALSE, kw |-> Expm1Centi(ModelRaw(kind, dt, weather_data))]

\* predict_for_datetime: max(0, float(prediction_kw)), or the exception
predict_for_datetime(kind, dt, weather_data) ==
    IF ModelRaises(kind, dt)
    THEN [raised |-> TRUE, kw |-> 0]
    ELSE [raised |-> FALSE, kw |-> Max(0, Expm1Centi(ModelRaw(kind, dt, weather_data)))]

---------------------------------------------------------------------------
(* SolarForecastService: the feature vector *)

\* A feature name is the sequence of its characters, so that Python's
\* `'uv' in req_feature` is a search for a subsequence. Values are in tenths.
Contains(name, pat) ==
    \E i \in 1..(Len(name) - Len(pat) + 1) : SubSeq(name, i, i + Len(pat) - 1) = pat

\* the keys of the dict create_features_from_datetime returns, with or without
\* weather data (node_service.py:112-173)
ProducedFeatures ==
    {<<"u", "v", "_", "i", "n", "d", "e", "x">>,
     <<"t", "e", "m", "p", "e", "r", "a", "t", "u", "r", "e", "_", "c">>,
     <<"h", "u", "m", "i", "d", "i", "t", "y", "_", "p", "c", "t">>,
     <<"p", "r", "e", "s", "s", "u", "r", "e", "_", "k", "p", "a">>,
     <<"d", "e", "w", "_", "p", "o", "i", "n", "t", "_", "c">>,
     <<"w", "i", "n", "d", "_", "s", "p", "e", "e", "d", "_", "m", "s">>,
     <<"w", "i", "n", "d", "_", "d", "i", "r", "e", "c", "t", "i", "o", "n", "_", "d", "e", "g">>,
     <<"c", "l", "o", "u", "d", "s", "_", "p", "c", "t">>,
     <<"v", "i", "s", "i", "b", "i", "l", "i", "t", "y", "_", "m">>,
     <<"p", "r", "e", "c", "i", "p", "i", "t", "a", "t", "i", "o", "n", "_", "m", "m", "h">>,
     <<"h", "o", "u", "r", "_", "s", "i", "n">>,
     <<"h", "o", "u", "r", "_", "c", "o", "s">>,
     <<"m", "o", "n", "t", "h", "_", "s", "i", "n">>,
     <<"m", "o", "n", "t", "h", "_", "c", "o", "s">>,
     <<"d", "a", "y", "_", "o", "f", "_", "y", "e", "a", "r", "_", "s", "i", "n">>,
     <<"d", "a", "y", "_", "o", "f", "_", "y", "e", "a", "r", "_", "c", "o", "s">>,
     <<"i", "s", "_", "d", "a", "y", "l", "i", "g", "h", "t">>,
     <<"s", "e", "a", "s", "o", "n">>,
     <<"d", "a", "y", "_", "l", "e", "n", "g", "t", "h", "_", "h", "o", "u", "r", "s">>,
     <<"h", "o", "u", "r">>,
     <<"m", "o", "n", "t", "h">>,
     <<"d", "a", "y", "_", "o", "f", "_", "w", "e", "e", "k">>,
     <<"d", "a", "y", "_", "o", "f", "_", "y", "e", "a", "r">>}

\* the value put in for a declared feature that is not produced
\* (node_service.py:191-200)
MissingDefault(req_feature) ==
    IF Contains(req_feature, <<"u", "v">>) THEN 10
    ELSE IF Contains(req_feature, <<"t", "e", "m", "p">>) THEN 150
    ELSE IF Contains(req_feature, <<"c", "l", "o", "u", "d">>) THEN 500
    ELSE IF Contains(req_feature, <<"s", "i", "n">>) \/ Contains(req_feature, <<"c", "o", "s">>)
    THEN 0
    ELSE 0

\* for req_feature in self.feature_names (node_service.py:186-200): the list of
\* missing names, in order, and the columns added with their values; a column
\* added for a name is there when the name comes again
RECURSIVE FillMissing(_, _, _, _)
FillMissing(declared, columns, missing_features, added) ==
    IF declared = <<>>
    THEN [missing_features |-> missing_features, added |-> added]
    ELSE LET req_feature == Head(declared)
         IN  IF req_feature \notin columns
             THEN FillMissing(Tail(declared), columns \cup {req_feature},
                              Append(missing_features, req_feature),
                              [n \in DOMAIN added \cup {req_feature} |->
                                   IF n = req_feature THEN MissingDefault(req_feature)
                                   ELSE added[n]])
             ELSE FillMissing(Tail(declared), columns, missing_features, added)

\* predict_for_datetime, the part before the scaler: the missing names and the
\* values filled in for them (node_service.py:180-206)
PrepareFeatures(declared) == FillMissing(declared, ProducedFeatures, <<>>, <<>>)

---------------------------------------------------------------------------
(* SolarForecastService: the result cache *)

\* `x or default`: None and 0 are both falsy
PyOr(x, default) == IF x = None \/ x = Some(0) THEN default ELSE Get(x)

\* _get_result_cache_key: md5 of f"{start_date}_{end_date}_{lat}_{lon}_{use_weather}"
_get_result_cache_key(start_date, end_date, lat, lon, use_weather) ==
    <<start_date, end_date, lat, lon, use_weather>>

\* a freshness test that takes an entry of age exactly max_age for expired
ResultFresh_Strict(rc, cache_key, t) ==
    /\ cache_key \in DOMAIN rc
    /\ t - rc[cache_key].mtime < ResultMaxAgeMinutes * Minute

\* the freshness test of _get_cached_result
ResultFresh(rc, cache_key, t) ==
    /\ cache_key \in DOMAIN rc
    /\ t - rc[cache_key].mtime <= ResultMaxAgeMinutes * Minute

\* _get_cached_result: the payload, None, or the exception of json.load
_get_cached_result(rc, cache_key, t, fault) ==
    IF ResultFresh(rc, cache_key, t)
    THEN IF fault = "result_read" \/ rc[cache_key].result = Unparseable
         THEN [raised |-> TRUE, value |-> None]
         ELSE [raised |-> FALSE, value |-> Some(rc[cache_key].result)]
    ELSE [raised |-> FALSE, value |-> None]

\* a _cache_result that leaves a file that exists as it is
_cache_result_KeepExisting(rc, cache_key, result, t, fault) ==
    LET annotated == [result EXCEPT !.cached = Some([cached_at |-> t,
                                                     cache_key |-> cache_key])]
    IN  IF fault = "result_write"
        THEN [raised |-> TRUE, result |-> annotated, result_cache |-> rc]
        ELSE [raised |-> FALSE, result |-> annotated,
              result_cache |-> IF cache_key \in DOMAIN rc THEN rc
                               ELSE CachePut(rc, cache_key,
                                             [mtime |-> t, result |-> annotated])]

\* a _cache_result that writes the file before it adds the _cached block
_cache_result_WriteFirst(rc, cache_key, result, t, fault) ==
    LET annotated == [result EXCEPT !.cached = Some([cached_at |-> t,
                                                     cache_key |-> cache_key])]
    IN  IF fault = "result_write"
        THEN [raised |-> TRUE, result |-> result, result_cache |-> rc]
        ELSE [raised |-> FALSE, result |-> annotated,
              result_cache |-> CachePut(rc, cache_key, [mtime |-> t, result |-> result])]

\* _cache_result: the _cached block is added to the result dict itself, then
\* the dict is written
_cache_result(rc, cache_key, result, t, fault) ==
    LET annotated == [result EXCEPT !.cached = Some([cached_at |-> t,
                                                     cache_key |-> cache_key])]
    IN  IF fault = "result_write"
        THEN [raised |-> TRUE, result |-> annotated, result_cache |-> rc]
        ELSE IF fault = PartialWrite
        THEN [raised |-> TRUE, result |-> annotated,
              result_cache |-> CachePut(rc, cache_key, [mtime |-> t, result |-> Unparseable])]
        ELSE [raised |-> FALSE, result |-> annotated,
              result_cache |-> CachePut(rc, cache_key, [mtime |-> t, result |-> annotated])]

---------------------------------------------------------------------------
(* SolarForecastService.predict_range *)

\* next_hour (node_service.py:268-271)
NextHour(current_time) ==
    IF MinuteOf(current_time) > 0 \/ SecondOf(current_time) > 0
    THEN FloorHour(current_time) + Hour
    ELSE FloorHour(current_time)

\* a daylight test that leaves out the hour 21
IsDaylight_Before21(hour) == DaylightFirstHour <= hour /\ hour < DaylightLastHour

IsDaylight(hour) == DaylightFirstHour <= hour /\ hour <= DaylightLastHour

\* the weather entry of this exact date and hour (node_service.py:294-300)
HourWeather(weather_forecast, date, hour) ==
    IF weather_forecast # None /\ date \in Get(weather_forecast).dates
       /\ <<date, hour>> \in DOMAIN Get(weather_forecast).entries
    THEN Some([hour |-> hour, dt |-> Get(weather_forecast).entries[<<date, hour>>]])
    ELSE None

\* one pass of the loop body for a daylight hour (node_service.py:290-343)
HourRecord(kind, prediction_time, current_time, weather_forecast) ==
    LET hour == HourOf(prediction_time)
        date == DayOf(prediction_time)
        hour_weather == HourWeather(weather_forecast, date, hour)
        p == predict_for_datetime(kind, prediction_time, hour_weather)
    IN  IF p.raised
        THEN [timestamp |-> prediction_time, predicted_kw |-> 0, hour |-> hour,
              date |-> date, is_daylight |-> 1, is_forecast |-> None,
              weather |-> None, error |-> TRUE, is_fallback |-> FALSE]
        ELSE [timestamp |-> FloorHour(prediction_time), predicted_kw |-> p.kw,
              hour |-> hour, date |-> date, is_daylight |-> 1,
              is_forecast |-> Some(IF prediction_time > current_time THEN 1 ELSE 0),
              weather |-> IF hour_weather # None THEN Some(Get(hour_weather).dt) ELSE None,
              error |-> FALSE, is_fallback |-> FALSE]

\* a loop that does not stop at the end date
RECURSIVE PredictLoop_NoBreak(_, _, _, _, _, _, _, _)
PredictLoop_NoBreak(kind, next_hour, end_day, current_time, weather_forecast, hour_offset, predictions, called) ==
    IF hour_offset >= ForecastHours
    THEN [predictions |-> predictions, called |-> called]
    ELSE LET prediction_time == next_hour + hour_offset * Hour
         IN  IF IsDaylight(HourOf(prediction_time))
             THEN PredictLoop_NoBreak(kind, next_hour, end_day, current_time,
                                      weather_forecast, hour_offset + 1,
                                      Append(predictions, HourRecord(kind, prediction_time,
                                                                     current_time,
                                                                     weather_forecast)),
                                      called \cup {prediction_time})
             ELSE PredictLoop_NoBreak(kind, next_hour, end_day, current_time,
                                      weather_forecast, hour_offset + 1, predictions, called)

\* for hour_offset in range(48) (node_service.py:279-347): the records made and
\* the instants predict_for_datetime was called for
RECURSIVE PredictLoop(_, _, _, _, _, _, _, _)
PredictLoop(kind, next_hour, end_day, current_time, weather_forecast, hour_offset, predictions, called) ==
    IF hour_offset >= ForecastHours
    THEN [predictions |-> predictions, called |-> called]
    ELSE LET prediction_time == next_hour + hour_offset * Hour
         IN  IF DayOf(prediction_time) > end_day
             THEN [predictions |-> predictions, called |-> called]
             ELSE IF IsDaylight(HourOf(prediction_time))
             THEN PredictLoop(kind, next_hour, end_day, current_time, weather_forecast,
                              hour_offset + 1,
                              Append(predictions, HourRecord(kind, prediction_time,
                                                             current_time, weather_forecast)),
                              called \cup {prediction_time})
             ELSE PredictLoop(kind, next_hour, end_day, current_time, weather_forecast,
                              hour_offset + 1, predictions, called)

\* the record made when the loop made none (node_service.py:351-363)
FallbackRecord(kw, current_time) ==
    [timestamp |-> current_time, predicted_kw |-> kw, hour |-> HourOf(current_time),
     date |-> DayOf(current_time),
     is_daylight |-> IF IsDaylight(HourOf(current_time)) THEN 1 ELSE 0,
     is_forecast |-> Some(0), weather |-> None, error |-> FALSE, is_fallback |-> TRUE]

RECURSIVE SumKw(_)
SumKw(ps) == IF ps = <<>> THEN 0 ELSE Head(ps).predicted_kw + SumKw(Tail(ps))

RECURSIVE MaxKw(_)
MaxKw(ps) == IF Len(ps) = 1 THEN Head(ps).predicted_kw
             ELSE Max(Head(ps).predicted_kw, MaxKw(Tail(ps)))

\* a result that warns about missing weather also when none was asked for
AssembleResult_WarnsUnasked(predictions, api_stats, current_lat, current_lon, use_weather, t) ==
    LET valid_predictions == SelectSeq(predictions, LAMBDA p : ~p.error)
        total_kwh == SumKw(valid_predictions)
        peak_kw == IF valid_predictions # <<>> THEN MaxKw(valid_predictions) ELSE 0
        weather_data_available == \E i \in 1..Len(predictions) : predictions[i].weather # None
    IN  [success |-> TRUE,
         error |-> FALSE,
         data |-> predictions,
         total_kwh |-> total_kwh,
         peak_kw |-> peak_kw,
         prediction_count |-> Len(predictions),
         valid_predictions |-> Some(Len(valid_predictions)),
         weather_data_available |-> Some(weather_data_available),
         api_stats |-> Some(api_stats),
         weather_integrated |-> use_weather,
         coordinates |-> Some(<<current_lat, current_lon>>),
         generated_at |-> t,
         warning |-> ~weather_data_available,
         cached |-> None]

\* a summary whose prediction_count counts the records without error only
AssembleResult_CountsValid(predictions, api_stats, current_lat, current_lon, use_weather, t) ==
    LET valid_predictions == SelectSeq(predictions, LAMBDA p : ~p.error)
        total_kwh == SumKw(valid_predictions)
        peak_kw == IF valid_predictions # <<>> THEN MaxKw(valid_predictions) ELSE 0
        weather_data_available == \E i \in 1..Len(predictions) : predictions[i].weather # None
    IN  [success |-> TRUE,
         error |-> FALSE,
         data |-> predictions,
         total_kwh |-> total_kwh,
         peak_kw |-> peak_kw,
         prediction_count |-> Len(valid_predictions),
         valid_predictions |-> Some(Len(valid_predictions)),
         weather_data_available |-> Some(weather_data_available),
         api_stats |-> Some(api_stats),
         weather_integrated |-> use_weather,
         coordinates |-> Some(<<current_lat, current_lon>>),
         generated_at |-> t,
         warning |-> (~weather_data_available /\ use_weather),
         cached |-> None]

\* a summary that does not leave the errored records out
AssembleResult_CountsErrors(predictions, api_stats, current_lat, current_lon, use_weather, t) ==
    LET valid_predictions == predictions
        total_kwh == SumKw(valid_predictions)
        peak_kw == IF valid_predictions # <<>> THEN MaxKw(valid_predictions) ELSE 0
        weather_data_available == \E i \in 1..Len(predictions) : predictions[i].weather # None
    IN  [success |-> TRUE,
         error |-> FALSE,
         data |-> predictions,
         total_kwh |-> total_kwh,
         peak_kw |-> peak_kw,
         prediction_count |-> Len(predictions),
         valid_predictions |-> Some(Len(valid_predictions)),
         weather_data_available |-> Some(weather_data_available),
         api_stats |-> Some(api_stats),
         weather_integrated |-> use_weather,
         coordinates |-> Some(<<current_lat, current_lon>>),
         generated_at |-> t,
         warning |-> (~weather_data_available /\ use_weather),
         cached |-> None]

\* the result dict (node_service.py:365-424)
AssembleResult(predictions, api_stats, current_lat, current_lon, use_weather, t) ==
    LET valid_predictions == SelectSeq(predictions, LAMBDA p : ~p.error)
        total_kwh == SumKw(valid_predictions)
        peak_kw == IF valid_predictions # <<>> THEN MaxKw(valid_predictions) ELSE 0
        weather_data_available == \E i \in 1..Len(predictions) : predictions[i].weather # None
    IN  [success |-> TRUE,
         error |-> FALSE,
         data |-> predictions,
         total_kwh |-> total_kwh,
         peak_kw |-> peak_kw,
         prediction_count |-> Len(predictions),
         valid_predictions |-> Some(Len(valid_predictions)),
         weather_data_available |-> Some(weather_data_available),
         api_stats |-> Some(api_stats),
         weather_integrated |-> use_weather,
         coordinates |-> Some(<<current_lat, current_lon>>),
         generated_at |-> t,
         warning |-> (~weather_data_available /\ use_weather),
         cached |-> None]

\* the dict of the except branch (node_service.py:431-455)
FailureResult(t) ==
    [success |-> FALSE,
     error |-> TRUE,
     data |-> <<>>,
     total_kwh |-> 0,
     peak_kw |-> 0,
     prediction_count |-> 0,
     valid_predictions |-> None,
     weather_data_available |-> None,
     api_stats |-> None,
     weather_integrated |-> FALSE,
     coordinates |-> None,
     generated_at |-> t,
     warning |-> FALSE,
     cached |-> None]

---------------------------------------------------------------------------
(* predict_range, the whole call *)

PrRet(ret, cl, clf, wc, rc, http, ws_path, called, cache_key, loop_count) ==
    [ret |-> ret, call_log |-> cl, call_log_file |-> clf, weather_cache |-> wc,
     result_cache |-> rc, http |-> http, ws_path |-> ws_path, called |-> called,
     cache_key |-> cache_key, loop_count |-> loop_count]

\* an except branch that lets the exception go on to the caller
OuterExcept_Reraise(t, cl, clf, wc, rc, http, ws_path, called, cache_key, loop_count) ==
    PrRet([kind |-> "raise", value |-> FailureResult(t)],
          cl, clf, wc, rc, http, ws_path, called, cache_key, loop_count)

\* the except branch of predict_range: whatever was raised inside the try
\* block becomes the failure dict (node_service.py:431-455)
OuterExcept(t, cl, clf, wc, rc, http, ws_path, called, cache_key, loop_count) ==
    PrRet([kind |-> "return", value |-> FailureResult(t)],
          cl, clf, wc, rc, http, ws_path, called, cache_key, loop_count)

Returned(result) == [kind |-> "return", value |-> result]

\* node_service.py:247-429: the result cache missed (or force_fresh)
ComputeForecast(cl, clf, wc, rc, kind, start_date_str, end_date_str, current_lat, current_lon, use_weather, force_fresh, t, env, cache_key) ==
    LET ws == IF use_weather
              THEN get_weather_forecast(cl, clf, wc, current_lat, current_lon,
                                        start_date_str, end_date_str, force_fresh, t, env)
              ELSE WsRet(None, FALSE, cl, clf, wc, 0, "not_requested")
        api_stats == get_api_stats(ws.call_log)
        next_hour == NextHour(t)
        loop == PredictLoop(kind, next_hour, end_date_str.day, t, ws.ret, 0, <<>>, {})
        empty == Len(loop.predictions) = 0
        fb == predict_for_datetime(kind, t, None)
        predictions == IF empty THEN <<FallbackRecord(fb.kw, t)>> ELSE loop.predictions
        called == IF empty THEN loop.called \cup {t} ELSE loop.called
        result == AssembleResult(predictions, api_stats, current_lat, current_lon,
                                 use_weather, t)
        cr == _cache_result(rc, cache_key, result, t, env.fault)
    IN  IF ws.raised
        THEN OuterExcept(t, ws.call_log, ws.call_log_file, ws.weather_cache, rc,
                         ws.http, ws.path, {}, Some(cache_key), None)
        ELSE IF empty /\ fb.raised
        THEN OuterExcept(t, ws.call_log, ws.call_log_file, ws.weather_cache, rc,
                         ws.http, ws.path, called, Some(cache_key), Some(0))
        ELSE IF cr.raised
        THEN OuterExcept(t, ws.call_log, ws.call_log_file, ws.weather_cache,
                         cr.result_cache, ws.http, ws.path, called, Some(cache_key),
                         Some(Len(loop.predictions)))
        ELSE PrRet(Returned(cr.result), ws.call_log, ws.call_log_file, ws.weather_cache,
                   cr.result_cache, ws.http, ws.path, called, Some(cache_key),
                   Some(Len(loop.predictions)))

\* predict_range (node_service.py:220-455)
predict_range(cl, clf, wc, rc, kind, start_date_str, end_date_str, lat, lon, use_weather, force_fresh, t, env) ==
    LET current_lat == PyOr(lat, self_lat)
        current_lon == PyOr(lon, self_lon)
        cache_key == _get_result_cache_key(start_date_str, end_date_str, current_lat,
                                           current_lon, use_weather)
        cached == IF force_fresh THEN [raised |-> FALSE, value |-> None]
                  ELSE _get_cached_result(rc, cache_key, t, env.fault)
    IN  IF ~start_date_str.ok \/ ~end_date_str.ok
        THEN \* strptime raises ValueError
             OuterExcept(t, cl, clf, wc, rc, 0, "none", {}, None, None)
        ELSE IF cached.raised
        THEN OuterExcept(t, cl, clf, wc, rc, 0, "none", {}, Some(cache_key), None)
        ELSE IF cached.value # None
        THEN PrRet(Returned(Get(cached.value)), cl, clf, wc, rc, 0, "none", {},
                   Some(cache_key), None)
        ELSE ComputeForecast(cl, clf, wc, rc, kind, start_date_str, end_date_str,
                             current_lat, current_lon, use_weather, force_fresh, t, env,
                             cache_key)

---------------------------------------------------------------------------
(* The inputs explored *)

StartDay == 1
LonB == 0 - 1130000

\* instants at which the service is started: on an hour boundary, one tick
\* after it, and late in the evening
StartTimes == {StartDay * Day + 12 * Hour,
               StartDay * Day + 12 * Hour + 1,
               StartDay * Day + 23 * Hour + 50 * Minute}

\* how long the clock may advance between two operations
Durations == {WeatherMaxAgeMinutes * Minute, WeatherMaxAgeMinutes * Minute + 1}

CallLogFile(day, calls) ==
    Some([today |-> day, calls_today |-> calls, last_reset |-> day * Day,
          history |-> [old |-> calls, recent |-> <<>>]])

\* the api_calls.json a starting process may find: none, or today's with the
\* quota nearly or fully used
StartFiles(t) ==
    {None,
     CallLogFile(DayOf(t), max_calls_per_day - 1),
     CallLogFile(DayOf(t), max_calls_per_day)}

Request(start, end, lat, lon, use_weather) ==
    [start_date |-> start, end_date |-> end, lat |-> lat, lon |-> lon,
     use_weather |-> use_weather]

LongRequest == Request(DateStr(StartDay), DateStr(StartDay + 3), None, None, TRUE)
TodayRequest == Request(DateStr(StartDay), DateStr(StartDay), None, None, TRUE)
ZeroLatRequest == Request(DateStr(StartDay), DateStr(StartDay + 3), Some(0), Some(LonB), TRUE)
NoWeatherRequest == Request(DateStr(StartDay), DateStr(StartDay + 3), None, None, FALSE)
BadDateRequest == Request(BadDateStr, DateStr(StartDay), None, None, TRUE)
\* a range that ended the day before the service was started
PastRequest == Request(DateStr(StartDay - 1), DateStr(StartDay - 1), None, None, TRUE)

\* the coordinates a caller may pass: none, 0, or a place that is not the
\* service's own (53.5461, -113.0000)
LatB == 535461

CoordRequests ==
    {Request(DateStr(StartDay), DateStr(StartDay + 3), lat, lon, TRUE) :
        lat \in {None, Some(0), Some(LatB)}, lon \in {None, Some(0), Some(LonB)}}

\* the arguments of predict_range
Requests == {LongRequest, TodayRequest, ZeroLatRequest, NoWeatherRequest, BadDateRequest,
             PastRequest}

\* what the provider and the file system do during one call
Env(p, f) == [provider |-> p, fault |-> f]

Envs ==
    {Env(p, "none") : p \in ProviderOutcomes}
    \cup {Env("ok", f) : f \in Faults \ {"none"}}
    \cup {Env("network_error", "log_write")}

\* what a call finds when it starts: both cache directories empty; a call left
\* in today's quota (a log of another day counts as zero calls)
Cold(wc, rc) == DOMAIN wc = {} /\ DOMAIN rc = {}
UnderQuota(cl, t) == cl.today # DayOf(t) \/ cl.calls_today < max_calls_per_day

\* the feature list of a model trained on what create_features_from_datetime
\* produces
TrainedFeatures ==
    <<<<"u", "v", "_", "i", "n", "d", "e", "x">>,
      <<"t", "e", "m", "p", "e", "r", "a", "t", "u", "r", "e", "_", "c">>,
      <<"h", "o", "u", "r", "_", "s", "i", "n">>,
      <<"h", "o", "u", "r">>>>

\* names a model_data['feature_names'] may hold: two the service produces and
\* five it does not
CandidateNames ==
    {<<"h", "o", "u", "r">>,
     <<"u", "v", "_", "i", "n", "d", "e", "x">>,
     <<"u", "v", "_", "l", "a", "g">>,
     <<"t", "e", "m", "p", "_", "m", "a", "x">>,
     <<"c", "l", "o", "u", "d", "_", "l", "o", "w">>,
     <<"w", "e", "e", "k", "_", "s", "i", "n">>,
     <<"e", "l", "e", "v", "a", "t", "i", "o", "n">>}

RECURSIVE SeqsUpTo(_, _)
SeqsUpTo(S, n) ==
    IF n = 0 THEN {<<>>}
    ELSE SeqsUpTo(S, n - 1)
         \cup {Append(q, x) : q \in {r \in SeqsUpTo(S, n - 1) : Len(r) = n - 1}, x \in S}

\* the declared feature lists explored: up to MaxDeclared names, in any order,
\* repetitions included
DeclaredLists == SeqsUpTo(CandidateNames, MaxDeclared)

\* the invocations that may run at the same time, each a process of its own
\* (node_service.py main), and the state of one that has not started
Procs == {1, 2}

IdleProc ==
    [pc |-> "idle", call_log |-> None, loaded |-> None, current_time |-> 0,
     key |-> None, path |-> "none"]

NoObservation ==
    [op |-> "start", t |-> 0, args |-> None, force_fresh |-> FALSE, env |-> None,
     cold |-> FALSE, under_quota |-> FALSE,
     ret |-> None, http |-> 0, ws_path |-> "none", called |-> {}, cache_key |-> None,
     loop_count |-> None]

---------------------------------------------------------------------------
(* The state machine *)

\* the state after WeatherService() and SolarForecastService() were constructed
InitWith3(times, kinds, lists) ==
    /\ now \in times
    /\ model_kind \in kinds
    /\ feature_names \in lists
    /\ \E f \in StartFiles(now) :
          LET i == _init_call_log(f, now)
          IN  /\ call_log = i.call_log
              /\ call_log_file = i.call_log_file
    /\ weather_cache = <<>>
    /\ result_cache = <<>>
    /\ last = NoObservation
    /\ prev = NoObservation
    /\ steps = 0
    /\ procs = [p \in Procs |-> IdleProc]
    /\ attempts = {}

\* one call of SolarForecastService.predict_range in the running process
PredictRangeWith(reqs, envs) ==
    /\ \E req \in reqs, force_fresh \in BOOLEAN, env \in envs :
          \E r \in {predict_range(call_log, call_log_file, weather_cache, result_cache,
                                  model_kind, req.start_date, req.end_date, req.lat,
                                  req.lon, req.use_weather, force_fresh, now, env)} :
              /\ call_log' = r.call_log
              /\ call_log_file' = r.call_log_file
              /\ weather_cache' = r.weather_cache
              /\ result_cache' = r.result_cache
              /\ last' = [op |-> "predict_range", t |-> now, args |-> Some(req),
                          force_fresh |-> force_fresh, env |-> Some(env),
                          cold |-> Cold(weather_cache, result_cache),
                          under_quota |-> UnderQuota(call_log, now),
                          ret |-> r.ret, http |-> r.http, ws_path |-> r.ws_path,
                          called |-> r.called, cache_key |-> r.cache_key,
                          loop_count |-> r.loop_count]
    /\ prev' = last
    /\ steps' = steps + 1
    /\ UNCHANGED <<now, model_kind, feature_names, procs, attempts>>

\* one direct call of WeatherService.get_weather_forecast
GetWeatherForecastWith(reqs, envs) ==
    /\ \E req \in {q \in reqs : q.use_weather}, force_fresh \in BOOLEAN, env \in envs :
          \E r \in {get_weather_forecast(call_log, call_log_file, weather_cache,
                                         PyOr(req.lat, self_lat), PyOr(req.lon, self_lon),
                                         req.start_date, req.end_date, force_fresh, now,
                                         env)} :
              /\ call_log' = r.call_log
              /\ call_log_file' = r.call_log_file
              /\ weather_cache' = r.weather_cache
              /\ last' = [op |-> "get_weather_forecast", t |-> now, args |-> Some(req),
                          force_fresh |-> force_fresh, env |-> Some(env),
                          cold |-> Cold(weather_cache, result_cache),
                          under_quota |-> UnderQuota(call_log, now),
                          ret |-> IF r.raised THEN [kind |-> "raise", value |-> None]
                                  ELSE [kind |-> "return", value |-> r.ret],
                          http |-> r.http, ws_path |-> r.path,
                          called |-> {}, cache_key |-> None, loop_count |-> None]
    /\ prev' = last
    /\ steps' = steps + 1
    /\ UNCHANGED <<now, model_kind, feature_names, result_cache, procs, attempts>>

\* the state after construction with a model trained on features the service
\* produces
InitWith(times, kinds) == InitWith3(times, kinds, {TrainedFeatures})

\* the wall clock advances
Tick ==
    /\ steps < MaxSteps
    /\ \E d \in Durations : now' = now + d
    /\ steps' = steps + 1
    /\ UNCHANGED <<model_kind, feature_names, call_log, call_log_file, weather_cache, result_cache,
                   last, prev, procs, attempts>>

(* Spec: the service in normal operation. The same forecast is requested
   again and again, forced fresh or not, the provider answers or fails, and
   the clock advances. *)
Init == InitWith(StartTimes, {"plain"})

PredictRange ==
    /\ steps < MaxSteps
    /\ PredictRangeWith({LongRequest},
                        {Env("ok", "none"), Env("network_error", "none")})

Next == PredictRange \/ Tick

Spec == Init /\ [][Next]_vars

(* SpecFaults: one call of predict_range or of get_weather_forecast, for every
   request, every behaviour of the model, every answer of the provider and
   every file-system fault; then the same call once more, when the files the
   first call wrote are read back. *)
InitFaults == InitWith(StartTimes, ModelKinds)

PredictRangeAny ==
    /\ last.op = "start"
    /\ PredictRangeWith(Requests \ {ZeroLatRequest}, Envs)

GetWeatherForecastAny ==
    /\ last.op = "start"
    /\ model_kind = "plain"
    /\ GetWeatherForecastWith({LongRequest, BadDateRequest}, Envs)

PredictRangeAgain ==
    /\ last.op = "predict_range"
    /\ prev.op = "start"
    /\ ~last.force_fresh
    /\ last.env = Some(Env("ok", "none"))
    /\ PredictRangeWith(last.args, {Env("ok", "none"), Env("ok", "result_read")})

GetWeatherForecastAgain ==
    /\ last.op = "get_weather_forecast"
    /\ prev.op = "start"
    /\ ~last.force_fresh
    /\ last.env = Some(Env("ok", "none"))
    /\ GetWeatherForecastWith(last.args, {Env("ok", "none"), Env("ok", "weather_read")})

NextFaults ==
    \/ PredictRangeAny
    \/ GetWeatherForecastAny
    \/ PredictRangeAgain
    \/ GetWeatherForecastAgain

SpecFaults == InitFaults /\ [][NextFaults]_vars

(* SpecWeather: the weather service called directly, again and again, over a
   change of day and over restarts of the process. *)
GetWeatherForecast ==
    /\ steps < MaxSteps
    /\ GetWeatherForecastWith({LongRequest},
                              {Env("ok", "none"), Env("network_error", "none"),
                               Env("no_hourly", "none")})

\* the process ends and a new one is started: weather_service.py:279 builds the
\* singleton again, which runs _init_call_log on the file
Restart ==
    /\ steps < MaxSteps
    /\ \E i \in {_init_call_log(call_log_file, now)} :
          /\ call_log' = i.call_log
          /\ call_log_file' = i.call_log_file
    /\ last' = [NoObservation EXCEPT !.op = "restart", !.t = now]
    /\ prev' = last
    /\ steps' = steps + 1
    /\ UNCHANGED <<now, model_kind, feature_names, weather_cache, result_cache, procs, attempts>>

NextWeather == GetWeatherForecast \/ Tick \/ Restart

SpecWeather == Init /\ [][NextWeather]_vars

(* SpecCaches: both caches at work. The forecast is requested and the weather
   service is called directly, forced fresh or not, the provider answering,
   while the clock advances by the TTL or by a tick more. *)
PredictRangeOk ==
    /\ steps < MaxSteps
    /\ PredictRangeWith({LongRequest}, {Env("ok", "none")})

GetWeatherForecastOk ==
    /\ steps < MaxSteps
    /\ GetWeatherForecastWith({LongRequest}, {Env("ok", "none")})

NextCaches == PredictRangeOk \/ GetWeatherForecastOk \/ Tick

SpecCaches == Init /\ [][NextCaches]_vars

(* SpecFeatures: predict_for_datetime called once, for the current instant
   and without weather data, on a service whose model declares any of the
   feature lists of DeclaredLists. *)
InitFeatures == InitWith3(StartTimes, {"plain"}, DeclaredLists)

PredictForDatetime ==
    /\ last.op = "start"
    /\ \E f \in {PrepareFeatures(feature_names)},
          p \in {predict_for_datetime(model_kind, now, None)} :
          last' = [NoObservation EXCEPT
                     !.op = "predict_for_datetime",
                     !.t = now,
                     !.ret = [kind |-> IF p.raised THEN "raise" ELSE "return",
                              value |-> [predicted_kw |-> p.kw,
                                         missing_features |-> f.missing_features,
                                         added |-> f.added]]]
    /\ prev' = last
    /\ steps' = steps + 1
    /\ UNCHANGED <<now, model_kind, feature_names, call_log, call_log_file,
                   weather_cache, result_cache, procs, attempts>>

NextFeatures == PredictForDatetime

SpecFeatures == InitFeatures /\ [][NextFeatures]_vars

(* SpecServing: the ways a forecast is served. The forecast is requested with
   and without weather and the weather service is called directly, forced
   fresh or not, the provider answering or failing, while the clock advances
   by the TTL or by a tick more. *)
PredictRangeServing ==
    /\ steps < MaxSteps
    /\ PredictRangeWith({LongRequest, NoWeatherRequest},
                        {Env("ok", "none"), Env("network_error", "none")})

NextServing == PredictRangeServing \/ GetWeatherForecastOk \/ Tick

SpecServing == Init /\ [][NextServing]_vars

(* SpecRace: two invocations at the same time. Each is a process of its own:
   it builds its WeatherService, which loads api_calls.json, and calls
   get_weather_forecast; the other process may run while this one waits for
   the provider (requests.get blocks). Nothing locks the file. *)

\* weather_service.py:279, WeatherService(): _init_call_log reads the file
StartProcess(p) ==
    /\ procs[p].pc = "idle"
    /\ \E i \in {_init_call_log(call_log_file, now)} :
          /\ procs' = [procs EXCEPT ![p] =
                         [@ EXCEPT !.pc = "loaded",
                                   !.call_log = Some(i.call_log),
                                   !.loaded = Some([day |-> i.call_log.today,
                                                    calls |-> i.call_log.calls_today])]]
          /\ call_log_file' = i.call_log_file
    /\ UNCHANGED <<now, model_kind, feature_names, call_log, weather_cache, result_cache,
                   last, prev, steps, attempts>>

\* get_weather_forecast up to the rate-limit check (weather_service.py:136-168)
BeginCall(p) ==
    /\ procs[p].pc = "loaded"
    /\ \E force_fresh \in BOOLEAN :
          \E c \in {CheckCacheAndRateLimit(Get(procs[p].call_log), call_log_file,
                                           weather_cache, self_lat, self_lon,
                                           LongRequest.start_date, LongRequest.end_date,
                                           force_fresh, now, "none")} :
              procs' = [procs EXCEPT ![p] =
                          [@ EXCEPT !.pc = IF c.done THEN "done" ELSE "requesting",
                                    !.call_log = Some(c.ret.call_log),
                                    !.current_time = now,
                                    !.key = Some(c.key),
                                    !.path = c.ret.path]]
    /\ UNCHANGED <<now, model_kind, feature_names, call_log, call_log_file, weather_cache,
                   result_cache, last, prev, steps, attempts>>

\* requests.get returns or raises, and the call runs to its end
\* (weather_service.py:183-245)
FinishCall(p) ==
    /\ procs[p].pc = "requesting"
    /\ \E env \in {Env("ok", "none"), Env("json_value_error", "none")} :
          \E r \in {CallProvider(Get(procs[p].call_log), call_log_file, weather_cache,
                                 Get(procs[p].key), procs[p].current_time, now, env)} :
              /\ procs' = [procs EXCEPT ![p] =
                             [@ EXCEPT !.pc = "done",
                                       !.call_log = Some(r.call_log),
                                       !.path = r.path]]
              /\ call_log_file' = r.call_log_file
              /\ weather_cache' = r.weather_cache
    /\ attempts' = attempts \cup {<<p, now>>}
    /\ UNCHANGED <<now, model_kind, feature_names, call_log, result_cache, last, prev, steps>>

\* the clock advances, once while the two invocations run
TickOnce == steps = 0 /\ Tick

NextRace ==
    \/ \E p \in Procs : StartProcess(p)
    \/ \E p \in Procs : BeginCall(p)
    \/ \E p \in Procs : FinishCall(p)
    \/ TickOnce

\* the invocations are made late in the evening, ten minutes before the date
\* changes
InitRace == InitWith({StartDay * Day + 23 * Hour + 50 * Minute}, {"plain"})

SpecRace == InitRace /\ [][NextRace]_vars

(* SpecHistory: the weather service called directly, over a change of day and
   over restarts, by a process that finds a call log whose history is at the
   cap, one record below it, or empty. *)

\* the record a call made at tick i of day 0 left in the history
OldRecord(i) == [timestamp |-> i, success |-> i % 2 = 0]

\* api_calls.json with three calls counted today and a history of 1000
\* records, of 999 records, or without any
HistoryFiles(t) ==
    {Some([today |-> DayOf(t), calls_today |-> 3, last_reset |-> DayOf(t) * Day,
           history |-> h]) :
        h \in {[old |-> 0, recent |-> [i \in 1..HistoryCap |-> OldRecord(i)]],
               [old |-> HistoryCap - 2, recent |-> <<OldRecord(HistoryCap - 1)>>],
               [old |-> 0, recent |-> <<>>]}}

InitHistory ==
    /\ now \in StartTimes
    /\ model_kind = "plain"
    /\ feature_names = TrainedFeatures
    /\ \E f \in HistoryFiles(now) :
          LET i == _init_call_log(f, now)
          IN  /\ call_log = i.call_log
              /\ call_log_file = i.call_log_file
    /\ weather_cache = <<>>
    /\ result_cache = <<>>
    /\ last = NoObservation
    /\ prev = NoObservation
    /\ steps = 0
    /\ procs = [p \in Procs |-> IdleProc]
    /\ attempts = {}

SpecHistory == InitHistory /\ [][NextWeather]_vars

(* SpecCoords: one call of predict_range, forced fresh or not, the provider
   answering, for every way the caller can give or leave out the latitude and
   the longitude. *)
PredictRangeCoords ==
    /\ last.op = "start"
    /\ PredictRangeWith(CoordRequests, {Env("ok", "none")})

NextCoords == PredictRangeCoords

SpecCoords == Init /\ [][NextCoords]_vars

(* SpecFailure: predict_range for today, called up to three times at noon or
   late in the evening (when the loop makes no record), forced
   fresh or not, with a model that predicts or raises, under the ways a call
   can end in the failure dict: the result file cannot be read, cannot be
   opened for writing, is left unfinished by the write, or the call log cannot
   be saved after a provider error; the clock may advance between calls. *)
FailureEnvs ==
    {Env("ok", "none"), Env("ok", "result_read"), Env("ok", "result_write"),
     Env("ok", PartialWrite), Env("network_error", "log_write")}

PredictRangeFailure ==
    /\ steps < MaxSteps
    /\ PredictRangeWith({TodayRequest}, FailureEnvs)

NextFailure == PredictRangeFailure \/ Tick

InitFailure == InitWith({StartDay * Day + 12 * Hour, StartDay * Day + 22 * Hour}, {"plain", "raises"})

SpecFailure == InitFailure /\ [][NextFailure]_vars

---------------------------------------------------------------------------
(* Properties *)

\* a step that is one call of predict_range or of get_weather_forecast, made
\* at the instant `now`
IsCall(op) == steps' = steps + 1 /\ now' = now /\ last'.op = op

TenMinutes == 10 * 60 * TicksPerSecond

\* the result-cache key of a request, spelled out: the caller's coordinates, or
\* the service's own where the caller gave none (or gave 0)
RequestKey(req) ==
    <<req.start_date, req.end_date,
      IF req.lat \in {None, Some(0)} THEN self_lat ELSE Get(req.lat),
      IF req.lon \in {None, Some(0)} THEN self_lon ELSE Get(req.lon),
      req.use_weather>>

\* C1: a predict_range call with force_fresh = false that finds a result-cache
\* entry for its key aged at most 10 minutes returns that entry's payload and
\* touches nothing: no weather-service lookup, no provider call, no model
\* prediction, and the call log (memory and file), the weather cache and the
\* result cache are left as they were.
C1_FreshHitReturnsImmediately ==
    [][(/\ IsCall("predict_range")
        /\ ~last'.force_fresh
        /\ RequestKey(Get(last'.args)) \in DOMAIN result_cache
        /\ now - result_cache[RequestKey(Get(last'.args))].mtime <= TenMinutes)
       => (/\ last'.ret = [kind |-> "return",
                           value |-> result_cache[RequestKey(Get(last'.args))].result]
           /\ last'.ws_path = "none"
           /\ last'.http = 0
           /\ last'.called = {}
           /\ UNCHANGED <<call_log, call_log_file, weather_cache, result_cache>>)]_vars

\* C1 witness: a call answered from an entry that is exactly 10 minutes old
C1_Witness ==
    /\ last.op = "predict_range"
    /\ prev.op = "predict_range"
    /\ ~last.force_fresh
    /\ last.ret.value.cached # None
    /\ last.t - Get(last.ret.value.cached).cached_at = TenMinutes
    /\ last.called = {}
    /\ last.http = 0

\* two calls of predict_range, one right after the other, with the same
\* arguments, the first one starting with both caches empty and a call left in
\* the quota, the second one not forced fresh and within the result TTL
ColdThenRepeat ==
    /\ prev.op = "predict_range"
    /\ last.op = "predict_range"
    /\ prev.cold
    /\ prev.under_quota
    /\ last.args = prev.args
    /\ Get(last.args).use_weather
    /\ ~last.force_fresh
    /\ last.t - prev.t <= TenMinutes

\* C2: starting cache-cold and under quota, two predict_range calls with the
\* same arguments in immediate succession (use_weather = true, the second not
\* forced fresh, within the result TTL) make exactly one provider HTTP call
\* and one set of model predictions in total; the second call returns a
\* result whose _cached.cache_key is the result-cache key the first call
\* computed and whose total_kwh is the first call's.
C2_ColdThenRepeatSharesOneComputation ==
    ColdThenRepeat =>
        /\ prev.http + last.http = 1
        /\ prev.called # {}
        /\ last.called = {}
        /\ last.ret.kind = "return"
        /\ last.ret.value.cached # None
        /\ prev.cache_key # None
        /\ Get(last.ret.value.cached).cache_key = Get(prev.cache_key)
        /\ Get(prev.cache_key) = RequestKey(Get(prev.args))
        /\ last.ret.value.total_kwh = prev.ret.value.total_kwh

\* C2 witness: the pair of calls happened, the provider answered the first one
\* and the forecast is not zero
C2_Witness ==
    /\ ColdThenRepeat
    /\ prev.ws_path = "api_ok"
    /\ prev.http = 1
    /\ last.http = 0
    /\ last.ret.value.total_kwh > 0
    /\ last.t > prev.t

\* the weather-cache key of a request made at instant t: the coordinates as
\* for the result cache, the start date, and the end date brought back to the
\* day that lies 48 hours after t when it is later than that
WeatherKey(req, t) ==
    <<IF req.lat \in {None, Some(0)} THEN self_lat ELSE Get(req.lat),
      IF req.lon \in {None, Some(0)} THEN self_lon ELSE Get(req.lon),
      req.start_date,
      IF req.end_date.day * 24 * 3600 * TicksPerSecond > t + 48 * 3600 * TicksPerSecond
      THEN [ok |-> TRUE, day |-> (t + 48 * 3600 * TicksPerSecond) \div (24 * 3600 * TicksPerSecond)]
      ELSE req.end_date>>

\* C3: when calls_today equals the daily quota (950) and the calendar day has
\* not changed, a predict_range call with use_weather = true makes no provider
\* HTTP call (and the count stays where it is); if in addition the weather
\* cache holds no entry for the request's key, the returned result carries a
\* warning and weather_data_available is false.
C3_QuotaExhaustedNoHttp ==
    [][(/\ IsCall("predict_range")
        /\ Get(last'.args).use_weather
        /\ call_log.calls_today = max_calls_per_day
        /\ call_log.today = now \div (24 * 3600 * TicksPerSecond))
       => (/\ last'.http = 0
           /\ call_log'.calls_today = max_calls_per_day
           /\ (WeatherKey(Get(last'.args), now) \notin DOMAIN weather_cache
                 => /\ last'.ret.kind = "return"
                    /\ last'.ret.value.success
                    /\ last'.ret.value.warning
                    /\ last'.ret.value.weather_data_available = Some(FALSE)))]_vars

\* C3 witness: a forced-fresh call met the exhausted quota with nothing in the
\* weather cache, and answered with the warning
C3_Witness ==
    /\ last.op = "predict_range"
    /\ last.force_fresh
    /\ ~last.under_quota
    /\ last.ws_path = "exhausted"
    /\ last.http = 0
    /\ call_log.calls_today = max_calls_per_day
    /\ call_log.today = last.t \div (24 * 3600 * TicksPerSecond)
    /\ last.ret.value.warning
    /\ last.ret.value.weather_data_available = Some(FALSE)
    /\ Len(last.ret.value.data) > 0

\* the calendar day of an instant
Today(t) == t \div (24 * 3600 * TicksPerSecond)

\* the count the rate limit compares: the stored one, or 0 when the stored
\* date is not today's
CountAfterRollover(cl, t) == IF cl.today = Today(t) THEN cl.calls_today ELSE 0

\* C4: a provider HTTP call is issued only after the day-rollover check and only
\* when calls_today (after the rollover) is below max_calls_per_day, and it
\* raises the count by one; so in a process that starts from a call log with
\* calls_today <= quota, calls_today never exceeds the quota, whatever the
\* sequence of get_weather_forecast calls (successes, failures, force_fresh).
C4_QuotaNeverExceeded ==
    /\ [](call_log.calls_today <= max_calls_per_day)
    /\ [][(IsCall("get_weather_forecast") /\ last'.http = 1)
           => (/\ CountAfterRollover(call_log, now) < max_calls_per_day
               /\ call_log'.today = Today(now)
               /\ call_log'.calls_today = CountAfterRollover(call_log, now) + 1)]_vars
    /\ [][IsCall("get_weather_forecast") => last'.http \in {0, 1}]_vars

\* C4 witness: the call that used the last call of the quota
C4_Witness ==
    /\ last.op = "get_weather_forecast"
    /\ last.http = 1
    /\ last.under_quota
    /\ call_log.calls_today = max_calls_per_day
    /\ call_log.today = Today(last.t)

\* a get_weather_forecast step that reached the rate-limit check (it was not
\* answered from a fresh weather-cache entry)
IsRateLimitedCall == IsCall("get_weather_forecast") /\ last'.ws_path # "fresh"

\* a step that starts the service anew
IsRestart == steps' = steps + 1 /\ now' = now /\ last'.op = "restart"

\* C5: quota rollover. With calls_today = quota - 1 on day D a provider call
\* on day D is permitted and leaves calls_today = quota; the next rate-limit
\* check on day D refuses the call; the first rate-limit check, or service
\* start, on day D+1 sets calls_today to 0 and the stored date to D+1 before
\* it compares with the quota (so the call is permitted); and the count is
\* reset only by a step that finds a stored date other than today's, once for
\* each change of date.
C5_QuotaRollover ==
    /\ [][(/\ IsRateLimitedCall
            /\ call_log.today = Today(now)
            /\ call_log.calls_today = max_calls_per_day - 1)
           => (last'.http = 1 /\ call_log'.calls_today = max_calls_per_day)]_vars
    /\ [][(/\ IsRateLimitedCall
            /\ call_log.today = Today(now)
            /\ call_log.calls_today = max_calls_per_day)
           => (last'.http = 0 /\ call_log' = call_log)]_vars
    /\ [][(IsRateLimitedCall /\ call_log.today # Today(now))
           => (/\ last'.http = 1
               /\ call_log'.today = Today(now)
               /\ call_log'.last_reset = now
               /\ call_log'.calls_today = 1)]_vars
    /\ [][(IsRestart /\ call_log.today # Today(now))
           => (/\ call_log'.today = Today(now)
               /\ call_log'.last_reset = now
               /\ call_log'.calls_today = 0)]_vars
    /\ [][(\/ call_log'.last_reset # call_log.last_reset
            \/ call_log'.calls_today < call_log.calls_today
            \/ call_log'.today # call_log.today)
           => (/\ call_log.today # Today(now)
               /\ now' = now
               /\ call_log'.today = Today(now))]_vars

\* C5 witness: a call was refused on day D with the quota used up, and the
\* next call, on day D+1, went to the provider with the count reset
C5_Witness ==
    /\ prev.op = "get_weather_forecast"
    /\ ~prev.under_quota
    /\ prev.http = 0
    /\ last.op = "get_weather_forecast"
    /\ last.http = 1
    /\ Today(last.t) = Today(prev.t) + 1
    /\ call_log.today = Today(last.t)
    /\ call_log.calls_today = 1
    /\ call_log.last_reset = last.t

\* C6: predict_range returns a result object for every input and for every
\* failure of its collaborators (malformed date strings, weather-service
\* error, model exception, cache read or write failure): it never raises past
\* its boundary, and a total failure is returned as success = false with an
\* error string and an empty data list.
C6_AlwaysReturnsResultObject ==
    last.op = "predict_range" =>
        /\ last.ret.kind = "return"
        /\ last.ret.value.success \in BOOLEAN
        /\ last.ret.value.success => Len(last.ret.value.data) > 0
        /\ ~last.ret.value.success =>
              /\ last.ret.value.error
              /\ last.ret.value.data = <<>>
              /\ last.ret.value.prediction_count = 0

\* C6 witness: the result file could not be written after the model had
\* been called for every hour, and the call returned the failure object
C6_Witness ==
    /\ last.op = "predict_range"
    /\ Get(last.env).fault = "result_write"
    /\ last.called # {}
    /\ last.ret.kind = "return"
    /\ ~last.ret.value.success
    /\ last.ret.value.error
    /\ last.ret.value.data = <<>>

\* C7, as claimed: whenever the per-hour loop of predict_range produces zero
\* records, the returned result's data holds exactly one record and that
\* record is flagged is_fallback (stated here for the calls that meet no
\* file-system fault).
C7_EmptyLoopYieldsOneFallback ==
    (/\ last.op = "predict_range"
     /\ last.loop_count = Some(0)
     /\ Get(last.env).fault = "none")
    => (/\ last.ret.kind = "return"
        /\ Len(last.ret.value.data) = 1
        /\ last.ret.value.data[1].is_fallback)

\* the instants the loop of a call made at t visits: 48 hours from the next
\* whole hour, up to the end date
Window(t, end_date) ==
    {x \in {NextHour(t) + k * Hour : k \in 0..47} : DayOf(x) <= end_date.day}

\* a call of predict_range that went through the loop and returned a forecast
Computed ==
    /\ last.op = "predict_range"
    /\ last.loop_count # None
    /\ last.ret.kind = "return"
    /\ last.ret.value.success

\* C8, as claimed: during a predict_range call a prediction record is
\* produced for an hour h if and only if 6 <= h <= 21, and for an hour outside
\* [6, 21] no record is produced and the model is not called.
C8_Original_RecordIffDaylight ==
    Computed =>
        /\ \A i \in 1..Len(last.ret.value.data) :
              6 <= last.ret.value.data[i].hour /\ last.ret.value.data[i].hour <= 21
        /\ \A x \in last.called : 6 <= HourOf(x) /\ HourOf(x) <= 21

\* C8, amended: inside the loop a record is produced for an instant of the
\* window if and only if its hour h has 6 <= h <= 21, and the loop calls the
\* model for these instants only; a record for an hour outside [6, 21], and a
\* model call for it, happens in one case only: the loop made no record, and
\* the single fallback record is made for the current instant, whatever its
\* hour.
C8_RecordIffDaylightInLoop ==
    Computed =>
        LET data == last.ret.value.data
            window == Window(last.t, Get(last.args).end_date)
            daylight == {x \in window : 6 <= HourOf(x) /\ HourOf(x) <= 21}
        IN  /\ \A x \in window :
                  (6 <= HourOf(x) /\ HourOf(x) <= 21)
                  <=> (\E i \in 1..Len(data) :
                          /\ ~data[i].is_fallback
                          /\ data[i].date = DayOf(x)
                          /\ data[i].hour = HourOf(x))
            /\ \A i \in 1..Len(data) :
                  ~data[i].is_fallback => (6 <= data[i].hour /\ data[i].hour <= 21)
            /\ Get(last.loop_count) = Cardinality(daylight)
            /\ IF daylight # {}
               THEN /\ last.called = daylight
                    /\ Len(data) = Cardinality(daylight)
                    /\ \A i \in 1..Len(data) : ~data[i].is_fallback
               ELSE /\ last.called = {last.t}
                    /\ Len(data) = 1
                    /\ data[1].is_fallback
                    /\ data[1].hour = HourOf(last.t)

\* C8 witness: a call whose window spans two nights: 48 instants visited, 32
\* of them in daylight, each with its record and its model call
C8_Witness ==
    /\ Computed
    /\ Cardinality(Window(last.t, Get(last.args).end_date)) = 48
    /\ Len(last.ret.value.data) = 32
    /\ Cardinality(last.called) = 32
    /\ \E i \in 1..32 : last.ret.value.data[i].hour = 21
    /\ \E i \in 1..32 : last.ret.value.data[i].hour = 6

\* the records of a result that carry no error
ValidRecords(data) == SelectSeq(data, LAMBDA p : ~p.error)

\* C9: if the model prediction for one hour of the window raises, predict_range
\* records that hour with predicted_kw = 0 and an error, goes on with all the
\* remaining hours of the window, and still returns success = true (the
\* result file being writable); the errored record is counted in
\* prediction_count but left out of valid_predictions, total_kwh and peak_kw.
C9_HourFailureIsLocal ==
    (/\ last.op = "predict_range"
     /\ model_kind = "raises_at_noon"
     /\ last.loop_count # None
     /\ Get(last.loop_count) > 0
     /\ Get(last.env).fault # "result_write")
    => LET r == last.ret.value
           window == Window(last.t, Get(last.args).end_date)
           daylight == {x \in window : 6 <= HourOf(x) /\ HourOf(x) <= 21}
       IN  /\ last.ret.kind = "return"
           /\ r.success
           /\ Len(r.data) = Cardinality(daylight)
           /\ \A x \in daylight :
                 \E i \in 1..Len(r.data) :
                    /\ r.data[i].date = DayOf(x)
                    /\ r.data[i].hour = HourOf(x)
                    /\ r.data[i].error <=> HourOf(x) = 12
                    /\ r.data[i].error => r.data[i].predicted_kw = 0
           /\ r.prediction_count = Len(r.data)
           /\ r.valid_predictions = Some(Len(ValidRecords(r.data)))
           /\ r.total_kwh = SumKw(ValidRecords(r.data))
           /\ r.peak_kw = MaxKw(ValidRecords(r.data))

\* C9 witness: two hours of the window (noon of two days) raised, the other 30
\* were predicted, and the summary counts 32 records, 30 of them valid
C9_Witness ==
    /\ last.op = "predict_range"
    /\ model_kind = "raises_at_noon"
    /\ last.ret.value.success
    /\ last.ret.value.prediction_count = 32
    /\ last.ret.value.valid_predictions = Some(30)
    /\ last.ret.value.total_kwh > 0
    /\ \E i \in 1..32 : last.ret.value.data[i].error /\ i < 32

\* the answers of the provider that are failures of the provider call
ProviderFailures ==
    {"network_error", "http_status", "json_invalid", "json_value_error", "no_hourly"}

\* C10, as claimed: every provider-call failure (network error, non-2xx
\* status, a response whose JSON is malformed, e.g. lacking the hourly array)
\* is recorded in the call log as one call with success = false, and
\* get_weather_forecast then returns no data instead of raising.
C10_ProviderFailureLoggedAsFailed ==
    (/\ last.op = "get_weather_forecast"
     /\ last.http = 1
     /\ Get(last.env).provider \in ProviderFailures)
    => (/\ last.ret = [kind |-> "return", value |-> None]
        /\ call_log.history.recent # <<>>
        /\ call_log.history.recent[Len(call_log.history.recent)]
              = [timestamp |-> last.t, success |-> FALSE])

\* a predict_range call whose provider call failed while the weather cache
\* held an entry, now expired, for the request's key
FailedWithStaleEntry ==
    /\ last.op = "predict_range"
    /\ last.ws_path = "api_failed"
    /\ last.ret.kind = "return"
    /\ last.ret.value.success
    /\ WeatherKey(Get(last.args), last.t) \in DOMAIN weather_cache
    /\ last.t - weather_cache[WeatherKey(Get(last.args), last.t)].mtime > TenMinutes

\* C11, as claimed: after a provider-call failure the forecast falls back to
\* the stale weather-cache entry for the request key when one exists (its
\* records carry the weather of that entry), and runs without weather only
\* when no entry exists for that key.
C11_Original_FailureFallsBackToStale ==
    FailedWithStaleEntry =>
        /\ last.ret.value.weather_data_available = Some(TRUE)
        /\ ~last.ret.value.warning

\* C11, amended: after a provider-call failure the forecast runs without
\* weather whether or not the weather cache holds an entry for the request
\* key: no record carries a weather snapshot, the result is a success with
\* the warning, and the entry stays in the cache untouched. (The stale entry
\* is served only when the quota is exhausted.)
C11_FailureRunsWithoutWeather ==
    (/\ last.op = "predict_range"
     /\ last.ws_path = "api_failed")
    => (/\ last.http = 1
        /\ last.ret.kind = "return"
        /\ last.ret.value.success
        /\ \A i \in 1..Len(last.ret.value.data) : last.ret.value.data[i].weather = None
        /\ last.ret.value.weather_data_available = Some(FALSE)
        /\ last.ret.value.warning
        /\ call_log.history.recent # <<>>
        /\ ~call_log.history.recent[Len(call_log.history.recent)].success)

\* C11 witness: the provider call failed while an expired entry for the key
\* was in the weather cache, and the forecast was made without weather
C11_Witness ==
    /\ FailedWithStaleEntry
    /\ last.ret.value.weather_data_available = Some(FALSE)
    /\ last.ret.value.warning
    /\ Len(last.ret.value.data) > 0

\* the rate limiter reports the quota exhausted at instant t
Exhausted(cl, t) == CountAfterRollover(cl, t) >= max_calls_per_day

\* C12: get_weather_forecast returns a weather-cache entry older than the
\* 10-minute TTL only when the rate limiter reports the quota exhausted; when
\* the quota is exhausted it returns the last payload written for the key
\* whatever its age, or no data if nothing was written for that key; under
\* quota an expired entry is never served and a provider call is attempted
\* instead.
C12_StaleOnlyWhenExhausted ==
    /\ [][(/\ IsCall("get_weather_forecast")
            /\ last'.ret.value # None
            /\ now - Get(last'.ret.value).fetched_at > TenMinutes)
           => (/\ Exhausted(call_log, now)
               /\ last'.http = 0
               /\ WeatherKey(Get(last'.args), now) \in DOMAIN weather_cache
               /\ Get(last'.ret.value)
                    = weather_cache[WeatherKey(Get(last'.args), now)].data)]_vars
    /\ [][(IsCall("get_weather_forecast") /\ Exhausted(call_log, now))
           => (/\ last'.http = 0
               /\ last'.ret.kind = "return"
               /\ last'.ret.value =
                    IF WeatherKey(Get(last'.args), now) \in DOMAIN weather_cache
                    THEN {weather_cache[WeatherKey(Get(last'.args), now)].data}
                    ELSE {}
               /\ weather_cache' = weather_cache)]_vars
    /\ [][(/\ IsCall("get_weather_forecast")
            /\ ~Exhausted(call_log, now)
            /\ WeatherKey(Get(last'.args), now) \in DOMAIN weather_cache
            /\ now - weather_cache[WeatherKey(Get(last'.args), now)].mtime > TenMinutes)
           => (/\ last'.http = 1
               /\ last'.ret.value
                    # {weather_cache[WeatherKey(Get(last'.args), now)].data})]_vars

\* C12 witness: with the quota used up, a call was answered with an entry
\* older than 10 minutes
C12_Witness ==
    /\ last.op = "get_weather_forecast"
    /\ last.ws_path = "stale"
    /\ last.http = 0
    /\ ~last.under_quota
    /\ last.ret.value # None
    /\ last.t - Get(last.ret.value).fetched_at > TenMinutes

\* C13, as claimed: a result served from the result cache carries a _cached
\* block with cached_at and cache_key, and by that block a consumer tells a
\* result served from the cache from one predict_range has just computed: the
\* block is there exactly when the result was served from the cache.
C13_CachedBlockTellsServedFromComputed ==
    (/\ last.op = "predict_range"
     /\ last.ret.kind = "return"
     /\ last.ret.value.success)
    => (last.ret.value.cached # None <=> last.loop_count = None)

\* C14: a successfully computed result carries a warning if and only if
\* use_weather was true and no record of data has a weather snapshot; the
\* warning never changes success to false.
C14_WarningIffWeatherAskedAndAbsent ==
    Computed =>
        /\ last.ret.value.warning
             <=> (/\ Get(last.args).use_weather
                  /\ \A i \in 1..Len(last.ret.value.data) :
                        last.ret.value.data[i].weather = None)
        /\ last.ret.value.warning => (last.ret.value.success /\ ~last.ret.value.error)

\* C14 witness: the provider answered with an empty hourly array, so weather
\* was asked for and fetched but no record has a snapshot; the result warns
\* and is a success
C14_Witness ==
    /\ Computed
    /\ Get(last.args).use_weather
    /\ last.ws_path = "api_ok"
    /\ Get(last.env).provider = "ok_empty"
    /\ last.ret.value.warning
    /\ last.ret.value.success
    /\ Len(last.ret.value.data) > 1

\* an entry of a cache directory is fresh at instant t: it exists and was
\* last written at most 600 seconds before
FreshAt(cache, key, t) ==
    key \in DOMAIN cache /\ t - cache[key].mtime <= 600 * TicksPerSecond

\* every entry a step wrote has age zero after the step
WritesRestartAge(cache, cache2, t) ==
    \A k \in DOMAIN cache2 :
        (k \notin DOMAIN cache \/ cache2[k] # cache[k]) => cache2[k].mtime = t

\* C15: TTL boundary, for the weather cache and for the result cache: a fresh
\* lookup returns an entry if and only if the entry exists and now minus the
\* time of its last write is at most 600 seconds (age exactly 600 s is fresh,
\* anything older is not); every write of a key restarts its age at zero.
C15_TtlBoundary ==
    /\ [][(IsCall("predict_range") /\ ~last'.force_fresh)
           => ((/\ last'.loop_count = None
                /\ last'.ret.value = result_cache[RequestKey(Get(last'.args))].result)
               <=> FreshAt(result_cache, RequestKey(Get(last'.args)), now))]_vars
    /\ [][(/\ ~last'.force_fresh
            /\ \/ IsCall("get_weather_forecast")
               \/ IsCall("predict_range") /\ last'.loop_count # None)
           => ((/\ last'.ws_path = "fresh"
                /\ last'.http = 0
                /\ weather_cache' = weather_cache)
               <=> FreshAt(weather_cache, WeatherKey(Get(last'.args), now), now))]_vars
    /\ [][IsCall("get_weather_forecast") /\ ~last'.force_fresh /\ last'.ws_path = "fresh"
           => last'.ret.value
                = {weather_cache[WeatherKey(Get(last'.args), now)].data}]_vars
    /\ [][/\ WritesRestartAge(result_cache, result_cache', now)
          /\ WritesRestartAge(weather_cache, weather_cache', now)]_vars
    /\ [](/\ \A k \in DOMAIN result_cache : result_cache[k].mtime <= now
          /\ \A k \in DOMAIN weather_cache : weather_cache[k].mtime <= now)

\* C15 witness: the weather service fetched and stored a payload, and a
\* forecast requested exactly 600 s later, finding no result entry, was given
\* that payload by the fresh lookup and stored its result
C15_Witness ==
    /\ prev.op = "get_weather_forecast"
    /\ prev.http = 1
    /\ prev.ws_path = "api_ok"
    /\ last.op = "predict_range"
    /\ ~last.force_fresh
    /\ last.ws_path = "fresh"
    /\ last.http = 0
    /\ last.t - prev.t = 600 * TicksPerSecond
    /\ last.ret.value.weather_data_available = Some(TRUE)
    /\ result_cache[RequestKey(Get(last.args))].mtime = last.t

\* C16, as claimed: the first instant of the prediction window of
\* predict_range is the earliest whole-hour instant at or after the current
\* time, never earlier than now whatever the minute, second and microsecond of
\* now: so no instant the loop predicts for lies before now, and the first
\* daylight instant within the hour after now is the hour boundary that
\* follows now (or now itself, on a boundary).
C16_WindowStartsAtOrAfterNow ==
    (/\ last.op = "predict_range"
     /\ last.loop_count # None
     /\ Get(last.loop_count) > 0)
    => \A x \in last.called : x >= last.t

\* C17, as claimed: predict_range considers at most 48 consecutive hourly
\* instants from the window start and stops at the first whose date is after
\* end_date; consequently every record of the returned data has a date no
\* later than end_date and a timestamp less than 48 hours after the window
\* start.
C17_Original_EveryRecordWithinRange ==
    Computed =>
        \A i \in 1..Len(last.ret.value.data) :
            /\ last.ret.value.data[i].date <= Get(last.args).end_date.day
            /\ last.ret.value.data[i].timestamp < NextHour(last.t) + 48 * Hour

\* C17, amended: the loop considers at most 48 consecutive hourly instants
\* from the window start and stops at the first whose date is after end_date;
\* every record the loop made has a date no later than end_date and a
\* whole-hour timestamp at or after the window start and less than 48 hours
\* after it. The fallback record, made when the loop made none, is for the
\* current instant: its date is today's, which is after end_date when the
\* requested range lies in the past.
C17_LoopRecordsWithinRange ==
    Computed =>
        LET data == last.ret.value.data
            start == NextHour(last.t)
            end_day == Get(last.args).end_date.day
        IN  /\ \A i \in 1..Len(data) :
                  IF data[i].is_fallback
                  THEN /\ Len(data) = 1
                       /\ last.loop_count = Some(0)
                       /\ data[i].timestamp = last.t
                       /\ data[i].date = DayOf(last.t)
                  ELSE /\ data[i].date <= end_day
                       /\ data[i].date = DayOf(data[i].timestamp)
                       /\ data[i].hour = HourOf(data[i].timestamp)
                       /\ data[i].timestamp \in {start + k * Hour : k \in 0..47}
                       /\ data[i].timestamp \in last.called
                       /\ \A j \in 1..Len(data) : j < i
                             => data[j].timestamp < data[i].timestamp
            /\ Len(data) <= 48
            /\ last.loop_count # Some(0)
                 => last.called \subseteq {x \in {start + k * Hour : k \in 0..47} :
                                              DayOf(x) <= end_day}

\* C17 witness: a forecast asked at noon for today only: the loop stopped at
\* midnight and the ten records run from 12:00 to 21:00 of the end date
C17_Witness ==
    /\ Computed
    /\ Get(last.args).end_date.day = DayOf(last.t)
    /\ Len(last.ret.value.data) = 10
    /\ last.ret.value.data[1].hour = 12
    /\ last.ret.value.data[10].hour = 21
    /\ last.ret.value.data[10].date = Get(last.args).end_date.day
    /\ ~last.ret.value.data[10].is_fallback

\* C18: with force_fresh = true predict_range consults neither the result cache
\* nor the fresh weather-cache lookup: if use_weather is true and the quota is
\* not exhausted it makes exactly one provider HTTP call even when fresh
\* entries exist, and on success the new weather payload and the new result
\* replace the entries under the same keys.
C18_ForceFreshBypassesCaches ==
    [][(/\ IsCall("predict_range")
        /\ last'.force_fresh
        /\ Get(last'.args).use_weather
        /\ ~Exhausted(call_log, now))
       => (/\ last'.http = 1
           /\ last'.ws_path \in {"api_ok", "api_failed"}
           /\ last'.loop_count # None
           /\ last'.called # {}
           /\ call_log'.calls_today = CountAfterRollover(call_log, now) + 1
           /\ last'.ws_path = "api_ok"
                => (/\ DOMAIN weather_cache' = DOMAIN weather_cache
                         \cup {WeatherKey(Get(last'.args), now)}
                    /\ weather_cache'[WeatherKey(Get(last'.args), now)].mtime = now
                    /\ weather_cache'[WeatherKey(Get(last'.args), now)].data.fetched_at = now
                    /\ DOMAIN result_cache' = DOMAIN result_cache
                         \cup {RequestKey(Get(last'.args))}
                    /\ result_cache'[RequestKey(Get(last'.args))]
                         = [mtime |-> now, result |-> last'.ret.value]
                    /\ last'.ret.value.generated_at = now))]_vars

\* C18 witness: a forced call made 10 minutes after an ordinary one, while
\* both entries were still fresh, went to the provider and replaced both
C18_Witness ==
    /\ prev.op = "predict_range"
    /\ prev.ws_path = "api_ok"
    /\ last.op = "predict_range"
    /\ last.args = prev.args
    /\ last.force_fresh
    /\ last.t - prev.t = TenMinutes
    /\ last.http = 1
    /\ last.ws_path = "api_ok"
    /\ result_cache[RequestKey(Get(last.args))].mtime = last.t
    /\ weather_cache[WeatherKey(Get(last.args), last.t)].mtime = last.t

\* C19: non-negativity. Whatever the timestamp, the weather observation and
\* the raw output of the regressor, the kW value predict_for_datetime returns
\* is >= 0; so every predicted_kw of a result, total_kwh and peak_kw are >= 0.
C19_NonNegative ==
    (last.op = "predict_range" /\ last.ret.kind = "return")
    => (/\ \A i \in 1..Len(last.ret.value.data) :
              last.ret.value.data[i].predicted_kw >= 0
        /\ last.ret.value.total_kwh >= 0
        /\ last.ret.value.peak_kw >= 0
        /\ \A x \in last.called :
              \A w \in {None, Some([hour |-> HourOf(x), dt |-> x])} :
                 predict_for_datetime(model_kind, x, w).kw >= 0)

\* C19 witness: the regressor answered below zero for 06:00 (expm1 of it is
\* negative) and the record of that hour has 0 kW, in a forecast that is not
\* zero
C19_Witness ==
    /\ Computed
    /\ model_kind = "plain"
    /\ last.ret.value.total_kwh > 0
    /\ \E i \in 1..Len(last.ret.value.data) :
          /\ last.ret.value.data[i].hour = 6
          /\ ~last.ret.value.data[i].error
          /\ last.ret.value.data[i].predicted_kw = 0
          /\ Expm1Centi(ModelRaw(model_kind, last.ret.value.data[i].timestamp, None)) < 0

\* C20, as claimed: for every feature name the model declares and
\* create_features_from_datetime does not produce, predict_for_datetime fills
\* in the value 0.0, whatever the name, instead of failing, and reports the
\* name in the list of missing features it returns.
C20_MissingFeatureFilledWithZero ==
    last.op = "predict_for_datetime" =>
        /\ last.ret.kind = "return"
        /\ \A i \in 1..Len(feature_names) :
              feature_names[i] \notin ProducedFeatures
              => (/\ feature_names[i] \in DOMAIN last.ret.value.added
                  /\ last.ret.value.added[feature_names[i]] = 0
                  /\ \E j \in 1..Len(last.ret.value.missing_features) :
                        last.ret.value.missing_features[j] = feature_names[i])

\* a step that is a call of predict_range or of get_weather_forecast
IsServiceCall == IsCall("predict_range") \/ IsCall("get_weather_forecast")

\* C21: calls_today and the call history change only when a provider HTTP
\* call is attempted (the reset at a change of day included): a forecast
\* served from the result cache, from a fresh weather-cache entry, from a
\* stale entry under an exhausted quota, or made with use_weather = false
\* leaves the call log, in memory and on disk, as it was.
C21_LogChangesOnlyOnAttempt ==
    /\ [][(call_log' # call_log \/ call_log_file' # call_log_file)
           => (IsServiceCall /\ last'.http = 1)]_vars
    /\ [][(/\ IsCall("predict_range")
            /\ ~last'.force_fresh
            /\ FreshAt(result_cache, RequestKey(Get(last'.args)), now))
           => (last'.http = 0 /\ UNCHANGED <<call_log, call_log_file>>)]_vars
    /\ [][(IsCall("predict_range") /\ ~Get(last'.args).use_weather)
           => (last'.http = 0 /\ UNCHANGED <<call_log, call_log_file>>)]_vars
    /\ [][(/\ IsServiceCall
            /\ Get(last'.args).use_weather
            /\ ~last'.force_fresh
            /\ FreshAt(weather_cache, WeatherKey(Get(last'.args), now), now))
           => (last'.http = 0 /\ UNCHANGED <<call_log, call_log_file>>)]_vars
    /\ [][(IsServiceCall /\ Exhausted(call_log, now))
           => (last'.http = 0 /\ UNCHANGED <<call_log, call_log_file>>)]_vars

\* C21 witness: with the quota used up, a forecast was made from a weather
\* entry older than the TTL, and the count is where it was
C21_Witness ==
    /\ last.op = "predict_range"
    /\ prev.op = "get_weather_forecast"
    /\ prev.http = 1
    /\ last.ws_path = "stale"
    /\ last.http = 0
    /\ ~last.under_quota
    /\ last.ret.value.weather_data_available = Some(TRUE)
    /\ call_log.calls_today = max_calls_per_day
    /\ Len(call_log.history.recent) = 1
    /\ call_log_file = Some(call_log)

\* the answers of the provider with which a response was received and parsed
ResponsesReceived == {"ok", "ok_empty", "no_hourly"}

C23_EveryMutationIsSaved ==
    [][\A p \in Procs :
          procs'[p].call_log # procs[p].call_log
          => call_log_file' = procs'[p].call_log]_vars

\* process p made a provider call that was answered and logged
Logged(p) ==
    /\ procs[p].pc = "done"
    /\ procs[p].path = "api_ok"
    /\ \E a \in attempts : a[1] = p /\ a[2] \div Day = Get(procs[p].loaded).day

\* the provider calls made on calendar day d by the concurrent invocations
AttemptsOn(d) == {a \in attempts : a[2] \div Day = d}

\* C26: no locking protects the call log. A process counts on the copy it
\* loaded at start-up and its save overwrites the file with that copy, whatever
\* the file holds by then; so when two processes that loaded the same count
\* each make a provider call on that day, the file ends with the loaded count
\* plus one although two calls were made (a lost update), and the calls of a
\* day can exceed the quota.
C26_ConcurrentCallsLoseAnUpdate ==
    /\ [](\A p, q \in Procs :
            (/\ p # q
             /\ Logged(p)
             /\ Logged(q)
             /\ procs[p].loaded = procs[q].loaded)
            => (/\ Get(call_log_file).today = Get(procs[p].loaded).day
                /\ Get(call_log_file).calls_today = Get(procs[p].loaded).calls + 1
                /\ Cardinality(AttemptsOn(Get(procs[p].loaded).day)) = 2))
    /\ [][\A p \in Procs :
            (/\ procs[p].pc = "requesting"
             /\ procs'[p].pc = "done"
             /\ procs'[p].path = "api_ok")
            => (/\ call_log_file' = procs'[p].call_log
                /\ Get(procs'[p].call_log).calls_today
                     = Get(procs[p].call_log).calls_today + 1)]_vars

\* C26 witness: both processes loaded 949 calls, each was allowed its call and
\* made it on that day, 951 calls in all, and the file says 950
C26_Witness ==
    /\ Logged(1)
    /\ Logged(2)
    /\ procs[1].loaded = procs[2].loaded
    /\ Get(procs[1].loaded).calls = max_calls_per_day - 1
    /\ Get(procs[1].loaded).calls + Cardinality(AttemptsOn(Get(procs[1].loaded).day))
         > max_calls_per_day
    /\ Get(call_log_file).calls_today = max_calls_per_day
    /\ Get(call_log_file).today = Get(procs[1].loaded).day

\* C24: after any sequence of logged calls the call history holds at most 1000
\* records, and they are the most recently logged ones in call order: a logged
\* call puts its record last, and when that makes 1001 records the oldest one,
\* and no other, is dropped.
C24_HistoryKeepsNewest ==
    /\ [](call_log.history.old + Len(call_log.history.recent) <= 1000)
    /\ [][(IsServiceCall /\ last'.http = 1)
           => LET h == call_log.history
                  h2 == call_log'.history
                  appended == Append(h.recent, [timestamp |-> now,
                                                success |-> last'.ws_path = "api_ok"
                                                            \/ last'.ws_path = "error"])
              IN  IF h.old + Len(h.recent) < 1000
                  THEN h2.old = h.old /\ h2.recent = appended
                  ELSE IF h.old > 0
                  THEN h2.old = h.old - 1 /\ h2.recent = appended
                  ELSE h2.old = 0 /\ h2.recent = Tail(appended)]_vars
    /\ [][(~IsServiceCall \/ last'.http = 0) => call_log'.history = call_log.history]_vars

\* C24 witness: two calls were logged on top of a history of 1000 records:
\* the two oldest records are gone, the third oldest is now the first, and the
\* two new ones are the last, in the order of the calls
C24_Witness ==
    /\ last.op = "get_weather_forecast"
    /\ prev.op = "get_weather_forecast"
    /\ last.http = 1
    /\ prev.http = 1
    /\ prev.t < last.t
    /\ call_log.history.old = 0
    /\ Len(call_log.history.recent) = 1000
    /\ call_log.history.recent[1] = [timestamp |-> 3, success |-> FALSE]
    /\ call_log.history.recent[999].timestamp = prev.t
    /\ call_log.history.recent[1000].timestamp = last.t
    /\ call_log_file = Some(call_log)

\* C25, as claimed: two get_weather_forecast calls with identical (lat, lon,
\* start_date, end_date) address the same weather-cache entry, whatever the
\* restarts between them and the instants at which they are made: a call that
\* follows, within the TTL and not forced fresh, a call that stored the
\* provider's answer is served that entry, and the calls of a service that is
\* always asked with the same four parameters leave one entry in the cache.
C25_SameParametersSameEntry ==
    /\ (/\ prev.op = "get_weather_forecast"
         /\ last.op = "get_weather_forecast"
         /\ last.args = prev.args
         /\ prev.ws_path = "api_ok"
         /\ ~last.force_fresh
         /\ last.t - prev.t <= TenMinutes)
        => (last.ws_path = "fresh" /\ last.http = 0)
    /\ Cardinality(DOMAIN weather_cache) <= 1

\* C27, as claimed: whenever the caller supplies a latitude and a longitude,
\* predict_range uses exactly those values for the weather request, for the
\* result-cache key and in metadata.coordinates; the default coordinates
\* (51.0447, -114.0719) are used only for a coordinate the caller did not
\* supply. This holds for every numeric value, 0 included.
C27_CallerCoordinatesAreUsed ==
    (last.op = "predict_range" /\ last.ws_path = "api_ok")
    => LET req == Get(last.args)
           lat == IF req.lat = {} THEN 510447 ELSE CHOOSE v \in req.lat : TRUE
           lon == IF req.lon = {} THEN 0 - 1140719 ELSE CHOOSE v \in req.lon : TRUE
       IN  /\ last.ret.value.coordinates = {<<lat, lon>>}
           /\ last.cache_key = {<<req.start_date, req.end_date, lat, lon, TRUE>>}
           /\ <<req.start_date, req.end_date, lat, lon, TRUE>> \in DOMAIN result_cache
           /\ \A k \in DOMAIN weather_cache : k[1] = lat /\ k[2] = lon

\* C28: every result with success = true computed by predict_range has
\* between 1 and 32 records; unless it consists of the single fallback record,
\* its records lie on whole hours with hour in [6, 21], appear in strictly
\* increasing timestamp order with no duplicate hour, and
\* summary.prediction_count equals the number of records while
\* valid_predictions <= prediction_count.
C28_ResultShape ==
    Computed =>
        LET v == last.ret.value
            data == v.data
            n == Len(data)
        IN  /\ 1 <= n /\ n <= 32
            /\ ~(n = 1 /\ data[1].is_fallback)
               => /\ \A i \in 1..n :
                        /\ ~data[i].is_fallback
                        /\ data[i].timestamp % Hour = 0
                        /\ data[i].hour = HourOf(data[i].timestamp)
                        /\ data[i].date = DayOf(data[i].timestamp)
                        /\ 6 <= data[i].hour /\ data[i].hour <= 21
                  /\ \A i \in 1..n : \A j \in 1..n :
                        i < j => /\ data[i].timestamp < data[j].timestamp
                                 /\ <<data[i].date, data[i].hour>> # <<data[j].date, data[j].hour>>
            /\ v.prediction_count = n
            /\ v.valid_predictions # {}
            /\ \A c \in v.valid_predictions : 0 <= c /\ c <= v.prediction_count

\* C28 witness: a computed result of 32 records on two days, two of them
\* errored, counted in prediction_count and not in valid_predictions
C28_Witness ==
    /\ Computed
    /\ Len(last.ret.value.data) = 32
    /\ last.ret.value.prediction_count = 32
    /\ last.ret.value.valid_predictions = {30}
    /\ last.ret.value.data[1].date # last.ret.value.data[32].date

\* C29, as claimed: when the provider call succeeds and its hourly array
\* covers the hours of the 48-hour prediction window, every daylight record
\* produced by predict_range carries a weather snapshot taken from the
\* observation for its own date and hour; no record of the window falls back
\* to default weather.
C29_EveryWindowRecordHasItsWeather ==
    (/\ Computed
     /\ last.ws_path = "api_ok"
     /\ \A e \in last.env : e.provider = "ok")
    => LET data == last.ret.value.data
           hourly == ProviderHourly("ok", last.t)
       IN  \A i \in 1..Len(data) :
               (/\ ~data[i].is_fallback
                /\ ~data[i].error
                /\ \E k \in DOMAIN hourly : hourly[k] = data[i].timestamp)
               => data[i].weather = {data[i].timestamp}

\* C30, as claimed: only results with success = true are written to the
\* result cache: a predict_range call that ends in total failure
\* (success = false) writes nothing and leaves every existing result-cache
\* entry unchanged, so that a later identical call never returns a cached
\* failure.
C30_FailureLeavesResultCache ==
    [][(IsCall("predict_range") /\ ~last'.ret.value.success)
        => result_cache' = result_cache]_vars

====
